---------------------------- MODULE Spec2Model ----------------------------
(* A model of libdns/bunny: the Provider facade (GetRecords, AppendRecords, *)
(* SetRecords, DeleteRecords), the zone resolver getZone with its cache,   *)
(* the record codec (bunnyRecord / libdnsRecord), the reconciler           *)
(* (createOrUpdateRecord, deleteRecord) and the vendor's HTTP API as the   *)
(* environment.                                                            *)
(*                                                                         *)
(* Go strings that the code inspects (domains, record names) are sequences *)
(* of one-character strings; strings the code only copies (values, tags,   *)
(* targets) are TLA+ strings.  A time.Duration is a number of              *)
(* milliseconds.                                                           *)
EXTENDS Integers, Sequences, FiniteSets, TLC

\* ------------------------------------------------------------------ strings

DOT == "."

\* strings.ToLower / the folding of strings.EqualFold, on the model's alphabet
LowerChar(ch) ==
    CASE ch = "A" -> "a"
      [] ch = "S" -> "s"
      [] ch = "C" -> "c"
      [] ch = "N" -> "n"
      [] OTHER -> ch

ToLower(s) == [k \in 1..Len(s) |-> LowerChar(s[k])]

EqualFold(s, t) == ToLower(s) = ToLower(t)

HasSuffix(s, suf) ==
    /\ Len(suf) <= Len(s)
    /\ SubSeq(s, Len(s) - Len(suf) + 1, Len(s)) = suf

HasPrefix(s, pre) ==
    /\ Len(pre) <= Len(s)
    /\ SubSeq(s, 1, Len(pre)) = pre

TrimSuffix(s, suf) ==
    IF HasSuffix(s, suf) THEN SubSeq(s, 1, Len(s) - Len(suf)) ELSE s

TrimPrefix(s, pre) ==
    IF HasPrefix(s, pre) THEN SubSeq(s, Len(pre) + 1, Len(s)) ELSE s

\* index of the first DOT of s, 0 when there is none
IndexDot(s) ==
    IF \E k \in 1..Len(s) : s[k] = DOT
    THEN CHOOSE k \in 1..Len(s) : s[k] = DOT /\ \A j \in 1..(k - 1) : s[j] # DOT
    ELSE 0

\* strings.SplitN(s, ".", n) for n >= 1: at most n parts, the last one unsplit
RECURSIVE SplitN(_, _)
SplitN(s, n) ==
    IF n <= 1 \/ IndexDot(s) = 0
    THEN <<s>>
    ELSE <<SubSeq(s, 1, IndexDot(s) - 1)>>
         \o SplitN(SubSeq(s, IndexDot(s) + 1, Len(s)), n - 1)

\* strings.Split(s, "."): one part more than s has dots
Split(s) == SplitN(s, Len(s) + 1)

\* strings.Join(parts, ".")
RECURSIVE Join(_)
Join(parts) ==
    IF Len(parts) = 0 THEN <<>>
    ELSE IF Len(parts) = 1 THEN parts[1]
    ELSE parts[1] \o <<DOT>> \o Join(Tail(parts))

\* strings.Contains
Contains(s, sub) ==
    \E k \in 0..(Len(s) - Len(sub)) : SubSeq(s, k + 1, k + Len(sub)) = sub

\* unFQDN that keeps the trailing dot
unFQDNKeeps(fqdn) == fqdn

\* unFQDN trims one trailing "." from fqdn
unFQDN(fqdn) == TrimSuffix(fqdn, <<DOT>>)

\* getBaseDomainNameGuesses going down to the last label
getBaseDomainNameGuessesAll(domain) ==
    LET parts == Split(domain) IN
    [k \in 1..Len(parts) |-> Join(SubSeq(parts, k, Len(parts)))]

\* getBaseDomainNameGuesses: the suffixes parts[i:] for i = 0 .. len(parts)-2,
\* most specific first; the domain itself when it has fewer than 2 parts
getBaseDomainNameGuesses(domain) ==
    LET parts == Split(domain) IN
    IF Len(parts) < 2 THEN <<domain>>
    ELSE [k \in 1..(Len(parts) - 1) |-> Join(SubSeq(parts, k, Len(parts)))]


\* ------------------------------------------------------------ type codes

bunnyTypeA == 0
bunnyTypeAAAA == 1
bunnyTypeCNAME == 2
bunnyTypeTXT == 3
bunnyTypeMX == 4
bunnyTypeRedirect == 5
bunnyTypeFlatten == 6
bunnyTypePullZone == 7
bunnyTypeSRV == 8
bunnyTypeCAA == 9
bunnyTypePTR == 10
bunnyTypeScript == 11
bunnyTypeNS == 12

\* error values; NoErr is Go's nil error
NoErr == "nil"
ErrUnknownTypeID == "unknown record type ID"
ErrUnknownType == "unknown record type"
ErrSRVName == "name does not contain enough fields"
ErrInvalidIP == "invalid IP address"
ErrEmptyDomain == "domain is an empty string"
ErrZoneNotFound == "zone not found for domain"
ErrAmbiguous == "unexpectedly found more than 1 record"
\* ErrTransport: a request that left the vendor's state as it was ends in
\* an error (doRequest's client.Do error or status outside 2xx; for a GET
\* also an unreadable or undecodable body). ErrBody: a mutating request
\* was applied and answered 2xx, and the body could not be read or decoded.
ErrTransport == "transport error"
ErrBody == "response body error"

Ret(v, e) == [val |-> v, err |-> e]

\* fromBunnyType: the vendor's type code to the libdns type name
fromBunnyType(t) ==
    CASE t = bunnyTypeA -> Ret("A", NoErr)
      [] t = bunnyTypeAAAA -> Ret("AAAA", NoErr)
      [] t = bunnyTypeCNAME -> Ret("CNAME", NoErr)
      [] t = bunnyTypeTXT -> Ret("TXT", NoErr)
      [] t = bunnyTypeMX -> Ret("MX", NoErr)
      [] t = bunnyTypeRedirect -> Ret("Redirect", NoErr)
      [] t = bunnyTypeFlatten -> Ret("Flatten", NoErr)
      [] t = bunnyTypePullZone -> Ret("PullZone", NoErr)
      [] t = bunnyTypeSRV -> Ret("SRV", NoErr)
      [] t = bunnyTypeCAA -> Ret("CAA", NoErr)
      [] t = bunnyTypePTR -> Ret("PTR", NoErr)
      [] t = bunnyTypeScript -> Ret("Script", NoErr)
      [] t = bunnyTypeNS -> Ret("NS", NoErr)
      [] OTHER -> Ret("", ErrUnknownTypeID)

\* toBunnyType with the codes of PTR and Script exchanged
toBunnyTypeSwapped(t) ==
    CASE t = "PTR" -> Ret(bunnyTypeScript, NoErr)
      [] t = "Script" -> Ret(bunnyTypePTR, NoErr)
      [] t \in {"A", "AAAA"} -> Ret(IF t = "A" THEN 0 ELSE 1, NoErr)
      [] t = "CNAME" -> Ret(bunnyTypeCNAME, NoErr)
      [] t = "TXT" -> Ret(bunnyTypeTXT, NoErr)
      [] t = "MX" -> Ret(bunnyTypeMX, NoErr)
      [] t = "Redirect" -> Ret(bunnyTypeRedirect, NoErr)
      [] t = "Flatten" -> Ret(bunnyTypeFlatten, NoErr)
      [] t = "PullZone" -> Ret(bunnyTypePullZone, NoErr)
      [] t = "SRV" -> Ret(bunnyTypeSRV, NoErr)
      [] t = "CAA" -> Ret(bunnyTypeCAA, NoErr)
      [] t = "NS" -> Ret(bunnyTypeNS, NoErr)
      [] OTHER -> Ret(0 - 1, ErrUnknownType)

\* toBunnyType: the libdns type name to the vendor's type code
toBunnyType(t) ==
    CASE t = "A" -> Ret(bunnyTypeA, NoErr)
      [] t = "AAAA" -> Ret(bunnyTypeAAAA, NoErr)
      [] t = "CNAME" -> Ret(bunnyTypeCNAME, NoErr)
      [] t = "TXT" -> Ret(bunnyTypeTXT, NoErr)
      [] t = "MX" -> Ret(bunnyTypeMX, NoErr)
      [] t = "Redirect" -> Ret(bunnyTypeRedirect, NoErr)
      [] t = "Flatten" -> Ret(bunnyTypeFlatten, NoErr)
      [] t = "PullZone" -> Ret(bunnyTypePullZone, NoErr)
      [] t = "SRV" -> Ret(bunnyTypeSRV, NoErr)
      [] t = "CAA" -> Ret(bunnyTypeCAA, NoErr)
      [] t = "PTR" -> Ret(bunnyTypePTR, NoErr)
      [] t = "Script" -> Ret(bunnyTypeScript, NoErr)
      [] t = "NS" -> Ret(bunnyTypeNS, NoErr)
      [] OTHER -> Ret(0 - 1, ErrUnknownType)

\* ------------------------------------------------------ generic records
\* A libdns.Record is one of the library's structs, told apart by "kind":
\*   RR       [kind, Name, TTL, Type, Data]
\*   TXT      [kind, Name, TTL, Text]
\*   Address  [kind, Name, TTL, IP]
\*   MX       [kind, Name, TTL, Preference, Target]
\*   CAA      [kind, Name, TTL, Flags, Tag, Value]
\*   SRV      [kind, Service, Transport, Name, TTL, Priority, Weight, Port, Target]
\*   CNAME    [kind, Name, TTL, Target]
\*   NS       [kind, Name, TTL, Target]

\* time.Second, in the model's unit of a time.Duration (one millisecond)
Second == 1000

RRof(name, ttl, type, data) ==
    [kind |-> "RR", Name |-> name, TTL |-> ttl, Type |-> type, Data |-> data]

TXTof(name, ttl, text) ==
    [kind |-> "TXT", Name |-> name, TTL |-> ttl, Text |-> text]

AddressOf(name, ttl, ip) ==
    [kind |-> "Address", Name |-> name, TTL |-> ttl, IP |-> ip]

MXof(name, ttl, pref, target) ==
    [kind |-> "MX", Name |-> name, TTL |-> ttl, Preference |-> pref,
     Target |-> target]

CAAof(name, ttl, flags, tag, value) ==
    [kind |-> "CAA", Name |-> name, TTL |-> ttl, Flags |-> flags, Tag |-> tag,
     Value |-> value]

SRVof(service, transport, name, ttl, prio, weight, port, target) ==
    [kind |-> "SRV", Service |-> service, Transport |-> transport,
     Name |-> name, TTL |-> ttl, Priority |-> prio, Weight |-> weight,
     Port |-> port, Target |-> target]

CNAMEof(name, ttl, target) ==
    [kind |-> "CNAME", Name |-> name, TTL |-> ttl, Target |-> target]

NSof(name, ttl, target) ==
    [kind |-> "NS", Name |-> name, TTL |-> ttl, Target |-> target]

\* Go's nil libdns.Record
NilRecord == [kind |-> "nil"]

\* netip.Addr values of the model: the zero Addr prints as "invalid IP"
IPv4s == {"192.0.2.1"}
IPv6s == {"2001:db8::1"}
ZeroIP == "invalid IP"

\* record.RR(): the libdns structs' common view (Name, TTL, Type, Data).
\* Data is the string fmt.Sprintf formats: "%d %s" for MX, `%d %s %q` for
\* CAA, "%d %d %d %s" for SRV. The zero netip.Addr is not Is6(): type A.
RR(record) ==
    LET Digit(d) == <<"0", "1", "2", "3", "4", "5", "6", "7", "8", "9">>[d + 1]
        RECURSIVE Itoa(_)
        Itoa(n) == IF n < 10 THEN Digit(n)
                   ELSE Itoa(n \div 10) \o Digit(n % 10)
    IN
    CASE record.kind = "RR" -> record
      [] record.kind = "TXT" ->
            RRof(record.Name, record.TTL, "TXT", record.Text)
      [] record.kind = "Address" ->
            RRof(record.Name, record.TTL,
                 IF record.IP \in IPv6s THEN "AAAA" ELSE "A", record.IP)
      [] record.kind = "MX" ->
            RRof(record.Name, record.TTL, "MX",
                 Itoa(record.Preference) \o " " \o record.Target)
      [] record.kind = "CAA" ->
            RRof(record.Name, record.TTL, "CAA",
                 Itoa(record.Flags) \o " " \o record.Tag
                     \o " \"" \o record.Value \o "\"")
      [] record.kind \in {"CNAME", "NS"} ->
            RRof(record.Name, record.TTL, record.kind, record.Target)
      [] record.kind = "SRV" ->
            RRof(<<"_">> \o record.Service \o <<DOT, "_">> \o record.Transport
                     \o <<DOT>> \o record.Name,
                 record.TTL, "SRV",
                 Itoa(record.Priority) \o " " \o Itoa(record.Weight) \o " "
                     \o Itoa(record.Port) \o " " \o record.Target)

\* RR.Parse() for the types libdnsRecord sends through it
Parse(r) ==
    CASE r.Type \in {"A", "AAAA"} ->
            IF r.Data \in IPv4s \cup IPv6s
            THEN Ret(AddressOf(r.Name, r.TTL, r.Data), NoErr)
            ELSE Ret(AddressOf(<<>>, 0, ZeroIP), ErrInvalidIP)
      [] r.Type = "TXT" -> Ret(TXTof(r.Name, r.TTL, r.Data), NoErr)
      [] r.Type = "CNAME" -> Ret(CNAMEof(r.Name, r.TTL, r.Data), NoErr)
      [] r.Type = "NS" -> Ret(NSof(r.Name, r.TTL, r.Data), NoErr)
      [] OTHER -> Ret(r, NoErr)

\* --------------------------------------------------------- record codec
\* A bunnyZone is [ID, Domain, nameBase]; a bunnyRecord is
\* [ID, Type, TTL, Value, Name, Weight, Priority, Flags, Tag, Port].

ZeroZone == [ID |-> 0, Domain |-> <<>>, nameBase |-> <<>>]

ZeroBunnyRecord ==
    [ID |-> 0, Type |-> 0, TTL |-> 0, Value |-> "", Name |-> <<>>,
     Weight |-> 0, Priority |-> 0, Flags |-> 0, Tag |-> "", Port |-> 0]

\* int(d.Seconds()): whole seconds, truncated towards zero
Seconds(d) == IF d >= 0 THEN d \div Second ELSE 0 - ((0 - d) \div Second)

\* bunnyName without the zone's name-base
bunnyNameNoBase(zone, name) == IF name = <<"@">> THEN <<>> ELSE name

\* bunnyName with the zone's name-base in front
bunnyNameBaseFirst(zone, name) ==
    LET n == IF name = <<"@">> THEN <<>> ELSE name IN
    IF zone.nameBase # <<>>
    THEN IF n = <<>> THEN zone.nameBase ELSE zone.nameBase \o <<DOT>> \o n
    ELSE n

\* the name a record is stored under: "@" is the empty name, and the
\* zone's name-base is appended
bunnyName(zone, name) ==
    LET n == IF name = <<"@">> THEN <<>> ELSE name IN
    IF zone.nameBase # <<>>
    THEN IF n = <<>> THEN zone.nameBase ELSE n \o <<DOT>> \o zone.nameBase
    ELSE n

\* bunnyZone.bunnyRecord: a libdns record to the vendor's record
bunnyRecord(zone, record) ==
    LET Typed(rr, rType) ==
            LET Base(r) ==
                    CASE record.kind = "CAA" ->
                            Ret([r EXCEPT !.Flags = record.Flags,
                                          !.Tag = record.Tag,
                                          !.Value = record.Value], NoErr)
                      [] record.kind = "MX" ->
                            Ret([r EXCEPT !.Priority = record.Preference,
                                          !.Value = record.Target], NoErr)
                      [] record.kind = "SRV" ->
                            Ret([r EXCEPT !.Priority = record.Priority,
                                          !.Weight = record.Weight,
                                          !.Port = record.Port,
                                          !.Value = record.Target], NoErr)
                      [] OTHER -> Ret(r, NoErr)
            IN
            IF rType.err # NoErr THEN Ret(ZeroBunnyRecord, rType.err)
            ELSE Base([ZeroBunnyRecord EXCEPT
                          !.Type = rType.val,
                          !.Name = bunnyName(zone, rr.Name),
                          !.Value = rr.Data,
                          !.TTL = Seconds(rr.TTL)])
    IN Typed(RR(record), toBunnyType(RR(record).Type))

\* libdnsName without the stripping of the zone's name-base
libdnsNameNoStrip(zone, name) == IF name = <<>> THEN <<"@">> ELSE name

\* the generic name of a stored name: the zone's name-base is stripped and
\* the empty name is "@"
libdnsName(zone, name) ==
    LET n == IF zone.nameBase # <<>>
             THEN IF name = zone.nameBase THEN <<>>
                  ELSE IF HasSuffix(name, <<DOT>> \o zone.nameBase)
                       THEN TrimSuffix(name, <<DOT>> \o zone.nameBase)
                       ELSE name
             ELSE name
    IN IF n = <<>> THEN <<"@">> ELSE n

\* the SRV case of libdnsRecord splitting the whole name, the name being
\* the third part
libdnsSRVThird(r, record, parts) ==
    LET all == Split(r.Name) IN
    IF Len(all) < 2
    THEN Ret(SRVof(<<>>, <<>>, <<>>, 0, 0, 0, 0, ""), ErrSRVName)
    ELSE Ret(SRVof(TrimPrefix(all[1], <<"_">>),
                   TrimPrefix(all[2], <<"_">>),
                   IF Len(all) >= 3 THEN all[3] ELSE <<"@">>,
                   r.TTL, record.Priority % 65536, record.Weight % 65536,
                   record.Port % 65536, record.Value), NoErr)

\* the SRV case of libdnsRecord: the name split into service, transport, name
libdnsSRV(r, record, parts) ==
    IF Len(parts) < 2
    THEN Ret(SRVof(<<>>, <<>>, <<>>, 0, 0, 0, 0, ""), ErrSRVName)
    ELSE Ret(SRVof(TrimPrefix(parts[1], <<"_">>),
                   TrimPrefix(parts[2], <<"_">>),
                   IF Len(parts) = 3 THEN parts[3] ELSE <<"@">>,
                   r.TTL, record.Priority % 65536, record.Weight % 65536,
                   record.Port % 65536, record.Value), NoErr)

\* bunnyZone.libdnsRecord: the vendor's record to a libdns record
libdnsRecord(zone, record) ==
    LET Typed(rType) ==
            LET Named(r) ==
                    CASE r.Type \in {"A", "AAAA", "CNAME", "NS", "TXT"} ->
                            Parse(r)
                      [] r.Type = "CAA" ->
                            Ret(CAAof(r.Name, r.TTL, record.Flags % 256,
                                      record.Tag, record.Value), NoErr)
                      [] r.Type = "MX" ->
                            Ret(MXof(r.Name, r.TTL, record.Priority % 65536,
                                     record.Value), NoErr)
                      [] r.Type = "SRV" ->
                            libdnsSRV(r, record, SplitN(r.Name, 3))
                      [] OTHER -> Ret(r, NoErr)
            IN
            IF rType.err # NoErr THEN Ret(NilRecord, rType.err)
            ELSE Named(RRof(libdnsName(zone, record.Name),
                            record.TTL * Second, rType.val, record.Value))
    IN Typed(fromBunnyType(record.Type))

\* filterBunnyRecords comparing the name alone
filterByNameOnly(zone, haystack, record) ==
    LET Filter(needle) ==
            IF needle.err # NoErr THEN Ret(<<>>, needle.err)
            ELSE Ret(SelectSeq(haystack, LAMBDA r : r.Name = needle.val.Name),
                     NoErr)
    IN Filter(bunnyRecord(zone, record))

\* a filter that finds no record
filterBunnyRecordsNone(zone, haystack, record) ==
    LET Filter(needle) ==
            IF needle.err # NoErr THEN Ret(<<>>, needle.err)
            ELSE Ret(<<>>, NoErr)
    IN Filter(bunnyRecord(zone, record))

\* filterBunnyRecords that decodes the haystack first
filterBunnyRecordsDecoding(zone, haystack, record) ==
    LET Filter(needle, decoded) ==
            IF needle.err # NoErr THEN Ret(<<>>, needle.err)
            ELSE IF decoded # {} THEN Ret(<<>>, CHOOSE e \in decoded : TRUE)
            ELSE Ret(SelectSeq(haystack,
                               LAMBDA r : r.Name = needle.val.Name
                                          /\ r.Type = needle.val.Type),
                     NoErr)
    IN Filter(bunnyRecord(zone, record),
              {libdnsRecord(zone, haystack[j]).err : j \in 1..Len(haystack)}
                 \ {NoErr})

\* bunnyZone.filterBunnyRecords: the records of haystack with the name and
\* type of the encoded record, in haystack order
filterBunnyRecords(zone, haystack, record) ==
    LET Filter(needle) ==
            IF needle.err # NoErr THEN Ret(<<>>, needle.err)
            ELSE Ret(SelectSeq(haystack,
                               LAMBDA r : r.Name = needle.val.Name
                                          /\ r.Type = needle.val.Type),
                     NoErr)
    IN Filter(bunnyRecord(zone, record))

\* ------------------------------------------------------------ inputs

\* the number of goroutines that may call the Provider
NProcs == 2
Procs == 1..NProcs

\* the longest record list of one call, the number of calls of one
\* behaviour, and the number of records the vendor creates in one behaviour
MaxRecords == 2
MaxOps == 2
MaxCreated == 4

Apex == <<"a", DOT, "c">>
SubDomain == <<"s", DOT, "a", DOT, "c">>
SubDomainUpper == <<"S", DOT, "a", DOT, "c">>

\* the domains callers pass, already without the trailing dot
Domains == {Apex, SubDomain, SubDomainUpper}

NameN == <<"n">>
TTL120 == 120 * Second

\* the records callers pass: two TXT records of one name, an MX record of
\* that name, a TXT record of the apex name, a record of no vendor type and
\* an SRV record whose one-label name the vendor stores but libdnsRecord
\* cannot decode, a typed SRV record, and a TXT record whose TTL is not a
\* whole number of seconds
RecT1 == TXTof(NameN, TTL120, "v")
RecT2 == TXTof(NameN, TTL120, "w")
RecMX == MXof(NameN, TTL120, 10, "mx")
RecApex == TXTof(<<"@">>, 0, "v")
RecBogus == RRof(NameN, TTL120, "BOGUS", "v")
RecBadSRV == RRof(NameN, TTL120, "SRV", "v")
RecSRV == SRVof(<<"x">>, <<"t">>, NameN, TTL120, 1, 2, 3, "v")
RecFrac == TXTof(NameN, 1500, "v")
CoreRecords ==
    {RecT1, RecT2, RecMX, RecApex, RecBogus, RecBadSRV, RecSRV, RecFrac}

\* and the records that do not come back as they were written: a plain RR
\* of type MX, a TXT record of the empty name, a typed SRV record whose
\* service holds a dot, a plain RR of type SRV named _service._proto.name,
\* an address record of the zero netip.Addr, and a plain RR of type A whose
\* data is an IPv6 address; with them, the address record of that name
RecPlainMX == RRof(NameN, TTL120, "MX", "10 mx")
RecEmpty == TXTof(<<>>, TTL120, "v")
RecDotSRV == SRVof(<<"x", DOT, "y">>, <<"t">>, NameN, TTL120, 1, 2, 3, "v")
RecPlainSRV == RRof(<<"_", "x", DOT, "_", "t", DOT, "n">>, TTL120, "SRV", "v")
RecZeroIP == AddressOf(NameN, TTL120, ZeroIP)
RecPlainA == RRof(NameN, TTL120, "A", "2001:db8::1")
RecAddr == AddressOf(NameN, TTL120, "192.0.2.1")
Records ==
    CoreRecords
        \cup {RecPlainMX, RecEmpty, RecDotSRV, RecPlainSRV, RecZeroIP,
              RecPlainA}

SeqsUpTo(S, n) == UNION {[1..k -> S] : k \in 0..n}

\* the record lists of the behaviours of two calls, whose number grows with
\* the square of the number of lists: the lists of the first eight records
RecordLists == SeqsUpTo(CoreRecords, MaxRecords)

\* the type tables' inputs: a plain RR of every type name of the table and
\* of names outside it, and a vendor record of every code of the table and
\* of codes outside it, each with data its type decodes
TypeNames ==
    {"A", "AAAA", "CNAME", "TXT", "MX", "Redirect", "Flatten", "PullZone",
     "SRV", "CAA", "PTR", "Script", "NS", "BOGUS", "", "a", "HTTPS"}

DataOf(t) ==
    IF t = "A" THEN "192.0.2.1"
    ELSE IF t = "AAAA" THEN "2001:db8::1"
    ELSE "v"

\* the codec's inputs: the apex zone as resolved for the apex and for the
\* subdomain, and records of every libdns struct and plain RRs of every
\* type name, with names that are "@", empty, or end in the subdomain's
\* label, and TTLs that are zero, whole seconds, or not
CodecZones ==
    {[ID |-> 1, Domain |-> Apex, nameBase |-> <<>>],
     [ID |-> 1, Domain |-> Apex, nameBase |-> <<"s">>]}

CodecNames == {<<"@">>, <<>>, NameN, <<"s">>, <<"n", DOT, "s">>}

CodecTTLs == {0, TTL120, 1500}

CodecRecords ==
    UNION {
        {TXTof(name, ttl, "v"),
         AddressOf(name, ttl, "192.0.2.1"),
         AddressOf(name, ttl, "2001:db8::1"),
         AddressOf(name, ttl, ZeroIP),
         CNAMEof(name, ttl, "v"),
         NSof(name, ttl, "v"),
         MXof(name, ttl, 10, "mx"),
         CAAof(name, ttl, 128, "issue", "v"),
         SRVof(<<"x">>, <<"t">>, name, ttl, 1, 2, 3, "v"),
         SRVof(<<"x", DOT, "y">>, <<"t">>, name, ttl, 1, 2, 3, "v"),
         SRVof(<<"x">>, <<"t", DOT, "y">>, name, ttl, 1, 2, 3, "v"),
         RRof(name, ttl, "MX", "10 mx")}
          \cup {RRof(name, ttl, t, DataOf(t)) : t \in TypeNames} :
        name \in CodecNames, ttl \in CodecTTLs}

\* the decoder's inputs: vendor records of every type code, of a code below
\* and of a code above the table, with names of no, one, two, three and
\* four labels, with and without the subdomain's label at the end and with
\* and without underscores
US == "_"

VendorNames ==
    {<<>>, <<"s">>, <<US, "x">>, <<US, "x", DOT, "s">>,
     <<US, "x", DOT, US, "t">>, <<US, "x", DOT, US, "t", DOT, "s">>,
     <<US, "x", DOT, US, "t", DOT, "n">>,
     <<US, "x", DOT, US, "t", DOT, "n", DOT, "s">>,
     <<US, "x", DOT, US, "t", DOT, "n", DOT, "m">>,
     <<"x", DOT, "t", DOT, "n">>,
     <<US, US, "x", DOT, "t", DOT, "n">>}

VendorTypes == (0 - 1)..(bunnyTypeNS + 1)

VendorRecords ==
    {[ZeroBunnyRecord EXCEPT !.ID = 1, !.Type = t, !.Name = name,
                             !.TTL = 120, !.Value = "v", !.Priority = 1,
                             !.Weight = 2, !.Port = 3] :
        t \in VendorTypes, name \in VendorNames}

SRVNames ==
    {<<US, "x", DOT, US, "t", DOT, "n">>, <<US, "x", DOT, US, "t">>}

ValueOf(code) ==
    IF code = bunnyTypeA THEN "192.0.2.1"
    ELSE IF code = bunnyTypeAAAA THEN "2001:db8::1"
    ELSE "v"

TypedRecords ==
    {RRof(name, TTL120, t, DataOf(t)) : t \in TypeNames, name \in SRVNames}

TypedVendorRecords ==
    {[ZeroBunnyRecord EXCEPT !.ID = 1, !.Type = t, !.Name = name,
                             !.TTL = 120, !.Value = ValueOf(t)] :
        t \in VendorTypes, name \in SRVNames}

\* what a zone of the vendor may hold when GetRecords lists it: records the
\* decoder takes (TXT, SRV with three labels) and records it refuses (SRV
\* with one label, a type code outside the table, an A record whose value
\* is no address), up to MaxListed of them in any order
MaxListed == 3

VendorSamples ==
    {[ZeroBunnyRecord EXCEPT !.Type = bunnyTypeTXT, !.Name = NameN,
                             !.TTL = 120, !.Value = "v"],
     [ZeroBunnyRecord EXCEPT !.Type = bunnyTypeSRV,
                             !.Name = <<US, "x", DOT, US, "t", DOT, "n">>,
                             !.TTL = 120, !.Value = "v"],
     [ZeroBunnyRecord EXCEPT !.Type = bunnyTypeSRV, !.Name = NameN,
                             !.TTL = 120, !.Value = "v"],
     [ZeroBunnyRecord EXCEPT !.Type = bunnyTypeNS + 1, !.Name = NameN,
                             !.TTL = 120, !.Value = "v"],
     [ZeroBunnyRecord EXCEPT !.Type = bunnyTypeA, !.Name = NameN,
                             !.TTL = 120, !.Value = "v"]}

\* the domains of the calls that exercise the resolver: the domains above
\* as they are and with a trailing dot, a domain no zone of the vendor
\* matches, a one-label domain that every zone's domain contains and none
\* equals, and the two domains that are empty once the dot is trimmed
NoZoneDomain == <<"b", DOT, "c">>

SuffixDomain == <<"c">>

FQDNs == {d \o <<DOT>> : d \in Domains}

ResolverDomains ==
    Domains \cup FQDNs \cup {NoZoneDomain, SuffixDomain, <<>>, <<DOT>>}

\* and their record lists: none, or one TXT record
ResolverLists == {<<>>, <<RecT1>>}

\* the domains and record lists of the calls of concurrent callers
ConcurrentDomains == {Apex, SubDomain, <<>>}

ConcurrentLists == {<<>>, <<RecT1>>}

\* the vendor's zones at the start: the apex zone alone, or with a zone of
\* its own for the subdomain
ZoneApex == [ID |-> 1, Domain |-> Apex, nameBase |-> <<>>]
ZoneSub == [ID |-> 2, Domain |-> SubDomain, nameBase |-> <<>>]
ZoneSets == {{ZoneApex}, {ZoneApex, ZoneSub}}


\* ------------------------------------------------------- the vendor API
\* The vendor keeps, per zone ID, the zone's records in listing order.

\* all orders of a finite set, as sequences
Perms(S) ==
    {f \in [1..Cardinality(S) -> S] : \A i, j \in 1..Cardinality(S) :
                                         f[i] = f[j] => i = j}

\* publicsuffix.EffectiveTLDPlusOne under the default rule "*": the last two
\* labels; an error for an empty label or a domain that is itself a suffix
EffectiveTLDPlusOne(domain) ==
    LET parts == Split(domain) IN
    IF (\E k \in 1..Len(parts) : parts[k] = <<>>) \/ Len(parts) < 2
    THEN Ret(<<>>, "publicsuffix")
    ELSE Ret(Join(SubSeq(parts, Len(parts) - 1, Len(parts))), NoErr)

\* the search term of getZone's request: the eTLD+1 of domain, or domain
searchTerm(domain) ==
    LET zone == EffectiveTLDPlusOne(domain) IN
    IF zone.err # NoErr THEN domain ELSE zone.val

\* GET /dnszone?search=term: the zones whose domain contains the term, in
\* any order
apiSearch(zones, term) ==
    Perms({z \in zones : Contains(ToLower(z.Domain), ToLower(term))})

\* PUT /dnszone/{id}/records: the record is stored under a fresh ID, last in
\* the listing
apiCreate(recs, data, id) == Append(recs, [data EXCEPT !.ID = id])

\* POST /dnszone/{id}/records/{recordId}: the record of that ID takes the
\* request's fields, in place
apiUpdate(recs, data, id) ==
    [k \in 1..Len(recs) |->
        IF recs[k].ID = id THEN [data EXCEPT !.ID = id] ELSE recs[k]]

\* DELETE /dnszone/{id}/records/{recordId}
apiDelete(recs, id) == SelectSeq(recs, LAMBDA r : r.ID # id)

HasID(recs, id) == \E k \in 1..Len(recs) : recs[k].ID = id

\* ---------------------------------------------------------- zone resolver

\* the loops of getZone nested the other way round: the first zone of the
\* search result that equals any guess
firstMatchZoneOrder(guesses, zones) ==
    LET hits == SelectSeq(zones,
                    LAMBDA z : \E k \in 1..Len(guesses) :
                                  EqualFold(z.Domain, guesses[k]))
    IN IF Len(hits) > 0 THEN Ret(Head(hits), NoErr)
       ELSE Ret(ZeroZone, ErrZoneNotFound)

\* getZone falling back to the first zone of the search result when no
\* guess equals a zone
firstMatchOrFirst(guesses, zones) ==
    LET hits == SelectSeq(zones,
                    LAMBDA z : \E k \in 1..Len(guesses) :
                                  EqualFold(z.Domain, guesses[k]))
    IN IF Len(hits) > 0 THEN Ret(Head(hits), NoErr)
       ELSE IF Len(zones) > 0 THEN Ret(Head(zones), NoErr)
       ELSE Ret(ZeroZone, ErrZoneNotFound)

\* the first zone of the search result that equals a guess, guesses taken
\* most specific first (getZone, the loop over zoneGuesses)
RECURSIVE firstMatch(_, _)
firstMatch(guesses, zones) ==
    IF Len(guesses) = 0 THEN Ret(ZeroZone, ErrZoneNotFound)
    ELSE LET hits == SelectSeq(zones,
                         LAMBDA z : EqualFold(z.Domain, Head(guesses)))
         IN IF Len(hits) > 0 THEN Ret(Head(hits), NoErr)
            ELSE firstMatch(Tail(guesses), zones)

\* getZone keeping the case of the name-base
getZoneKeepsCase(domain, zones) ==
    LET Matched(m) ==
            IF m.err # NoErr THEN m
            ELSE IF Len(domain) > Len(m.val.Domain)
            THEN Ret([m.val EXCEPT !.nameBase =
                         SubSeq(domain, 1,
                                Len(domain) - Len(m.val.Domain) - 1)],
                     NoErr)
            ELSE m
    IN Matched(firstMatch(getBaseDomainNameGuesses(domain), zones))

\* getZone after the search response: the matched zone with its name-base
getZone(domain, zones) ==
    LET Matched(m) ==
            IF m.err # NoErr THEN m
            ELSE IF Len(domain) > Len(m.val.Domain)
            THEN Ret([m.val EXCEPT !.nameBase =
                         ToLower(SubSeq(domain, 1,
                                        Len(domain) - Len(m.val.Domain) - 1))],
                     NoErr)
            ELSE m
    IN Matched(firstMatch(getBaseDomainNameGuesses(domain), zones))

\* -------------------------------------------------------- record repository
\* Each operator gives the outcome of one call of the function it is named
\* after: the zone's records afterwards (recs), the HTTP calls issued after
\* the listing (calls), the returned record (val) and error (err).
\* answer tells how the mutating request ends: "answered", the vendor
\* applies it and the response is read; "failed", doRequest returns an
\* error (no response, or a status outside 2xx) and the vendor's records
\* are as before; "unread", the vendor applies it and answers 2xx, and
\* reading the body (or, in createRecord, json.Unmarshal) fails.

Answers == {"answered", "failed", "unread"}

Out(recs, calls, val, e) ==
    [recs |-> recs, calls |-> calls, val |-> val, err |-> e]

\* createRecord whose request the vendor answers without storing the record
createRecordDropped(zone, record, recs, id, answer) ==
    LET Decoded(dec) ==
            IF dec.err # NoErr
            THEN Out(recs, <<"create">>, NilRecord, dec.err)
            ELSE Out(recs, <<"create">>, dec.val, NoErr)
        Sent(reqData) ==
            IF reqData.err # NoErr
            THEN Out(recs, <<>>, NilRecord, reqData.err)
            ELSE IF answer = "failed"
            THEN Out(recs, <<"create">>, NilRecord, ErrTransport)
            ELSE IF answer = "unread"
            THEN Out(recs, <<"create">>, NilRecord, ErrBody)
            ELSE Decoded(libdnsRecord(zone, reqData.val))
    IN Sent(bunnyRecord(zone, record))

createRecord(zone, record, recs, id, answer) ==
    LET Decoded(stored, dec) ==
            IF dec.err # NoErr
            THEN Out(stored, <<"create">>, NilRecord, dec.err)
            ELSE Out(stored, <<"create">>, dec.val, NoErr)
        Stored(stored) ==
            Decoded(stored, libdnsRecord(zone, stored[Len(stored)]))
        Sent(reqData) ==
            IF reqData.err # NoErr
            THEN Out(recs, <<>>, NilRecord, reqData.err)
            ELSE IF answer = "failed"
            THEN Out(recs, <<"create">>, NilRecord, ErrTransport)
            ELSE IF answer = "unread"
            THEN Out(apiCreate(recs, reqData.val, id), <<"create">>,
                     NilRecord, ErrBody)
            ELSE Stored(apiCreate(recs, reqData.val, id))
    IN Sent(bunnyRecord(zone, record))

updateRecord(zone, record, recs, id, answer) ==
    LET Sent(reqData) ==
            IF reqData.err # NoErr
            THEN Out(recs, <<>>, NilRecord, reqData.err)
            ELSE IF answer = "failed" \/ ~HasID(recs, id)
            THEN Out(recs, <<"update">>, NilRecord, ErrTransport)
            ELSE Out(apiUpdate(recs, reqData.val, id), <<"update">>,
                     NilRecord,
                     IF answer = "unread" THEN ErrBody ELSE NoErr)
    IN Sent(bunnyRecord(zone, record))

\* createOrUpdateRecord that never looks for a match
createOrUpdateAlwaysCreates(zone, record, bunnyRecords, recs, id, answer) ==
    createRecord(zone, record, recs, id, answer)

\* createOrUpdateRecord without its check for more than one match
createOrUpdateFirstMatch(zone, record, bunnyRecords, recs, id, answer) ==
    LET Updated(upd) == Out(upd.recs, upd.calls, record, upd.err)
        Matched(matchingRecords) ==
            IF matchingRecords.err # NoErr
            THEN Out(recs, <<>>, NilRecord, matchingRecords.err)
            ELSE IF Len(matchingRecords.val) = 0
            THEN createRecord(zone, record, recs, id, answer)
            ELSE Updated(updateRecord(zone, record, recs,
                                      matchingRecords.val[1].ID, answer))
    IN Matched(filterBunnyRecords(zone, bunnyRecords, record))

\* createOrUpdateRecord that creates and never updates: a record of the
\* (name, type) in the listing is an error
createOrUpdateCreateOnly(zone, record, bunnyRecords, recs, id, answer) ==
    LET Matched(matchingRecords) ==
            IF matchingRecords.err # NoErr
            THEN Out(recs, <<>>, NilRecord, matchingRecords.err)
            ELSE IF Len(matchingRecords.val) = 0
            THEN createRecord(zone, record, recs, id, answer)
            ELSE Out(recs, <<>>, NilRecord, ErrAmbiguous)
    IN Matched(filterBunnyRecords(zone, bunnyRecords, record))

\* createOrUpdateRecord after its listing bunnyRecords
createOrUpdateRecord(zone, record, bunnyRecords, recs, id, answer) ==
    LET Updated(upd) == Out(upd.recs, upd.calls, record, upd.err)
        Matched(matchingRecords) ==
            IF matchingRecords.err # NoErr
            THEN Out(recs, <<>>, NilRecord, matchingRecords.err)
            ELSE IF Len(matchingRecords.val) = 0
            THEN createRecord(zone, record, recs, id, answer)
            ELSE IF Len(matchingRecords.val) > 1
            THEN Out(recs, <<>>, NilRecord, ErrAmbiguous)
            ELSE Updated(updateRecord(zone, record, recs,
                                      matchingRecords.val[1].ID, answer))
    IN Matched(filterBunnyRecords(zone, bunnyRecords, record))

\* deleteRecord that reports success without its DELETE request
deleteRecordKeeps(zone, record, bunnyRecords, recs, answer) ==
    LET Matched(matchingRecords) ==
            IF matchingRecords.err # NoErr
            THEN Out(recs, <<>>, NilRecord, matchingRecords.err)
            ELSE Out(recs, <<>>, NilRecord, NoErr)
    IN Matched(filterBunnyRecords(zone, bunnyRecords, record))

\* deleteRecord removing every record that matches
deleteRecordEvery(zone, record, bunnyRecords, recs, answer) ==
    LET Matched(matchingRecords) ==
            IF matchingRecords.err # NoErr
            THEN Out(recs, <<>>, NilRecord, matchingRecords.err)
            ELSE IF Len(matchingRecords.val) = 0
            THEN Out(recs, <<>>, NilRecord, NoErr)
            ELSE IF answer = "failed"
                    \/ ~HasID(recs, matchingRecords.val[1].ID)
            THEN Out(recs, <<"delete">>, NilRecord, ErrTransport)
            ELSE Out(SelectSeq(recs,
                        LAMBDA r : \A j \in 1..Len(matchingRecords.val) :
                                      matchingRecords.val[j].ID # r.ID),
                     <<"delete">>, NilRecord,
                     IF answer = "unread" THEN ErrBody ELSE NoErr)
    IN Matched(filterBunnyRecords(zone, bunnyRecords, record))

\* deleteRecord failing when nothing matches
deleteRecordNotFound(zone, record, bunnyRecords, recs, answer) ==
    LET Matched(matchingRecords) ==
            IF matchingRecords.err # NoErr
            THEN Out(recs, <<>>, NilRecord, matchingRecords.err)
            ELSE IF Len(matchingRecords.val) = 0
            THEN Out(recs, <<>>, NilRecord, "record not found")
            ELSE IF answer = "failed"
                    \/ ~HasID(recs, matchingRecords.val[1].ID)
            THEN Out(recs, <<"delete">>, NilRecord, ErrTransport)
            ELSE Out(apiDelete(recs, matchingRecords.val[1].ID),
                     <<"delete">>, NilRecord,
                     IF answer = "unread" THEN ErrBody ELSE NoErr)
    IN Matched(filterBunnyRecords(zone, bunnyRecords, record))

\* deleteRecord after its listing bunnyRecords
deleteRecord(zone, record, bunnyRecords, recs, answer) ==
    LET Matched(matchingRecords) ==
            IF matchingRecords.err # NoErr
            THEN Out(recs, <<>>, NilRecord, matchingRecords.err)
            ELSE IF Len(matchingRecords.val) = 0
            THEN Out(recs, <<>>, NilRecord, NoErr)
            ELSE IF answer = "failed"
                    \/ ~HasID(recs, matchingRecords.val[1].ID)
            THEN Out(recs, <<"delete">>, NilRecord, ErrTransport)
            ELSE Out(apiDelete(recs, matchingRecords.val[1].ID),
                     <<"delete">>, NilRecord,
                     IF answer = "unread" THEN ErrBody ELSE NoErr)
    IN Matched(filterBunnyRecords(zone, bunnyRecords, record))

\* getAllRecords leaving out the records libdnsRecord refuses
RECURSIVE getAllRecordsSkipping(_, _)
getAllRecordsSkipping(zone, bunnyRecords) ==
    LET Both(record, rest) ==
            IF record.err # NoErr THEN rest
            ELSE Ret(<<record.val>> \o rest.val, NoErr)
    IN
    IF Len(bunnyRecords) = 0 THEN Ret(<<>>, NoErr)
    ELSE Both(libdnsRecord(zone, Head(bunnyRecords)),
              getAllRecordsSkipping(zone, Tail(bunnyRecords)))

\* getAllRecords after its listing: every record decoded, or the first error
RECURSIVE getAllRecords(_, _)
getAllRecords(zone, bunnyRecords) ==
    LET Both(record, rest) ==
            IF record.err # NoErr THEN Ret(<<>>, record.err)
            ELSE IF rest.err # NoErr THEN rest
            ELSE Ret(<<record.val>> \o rest.val, NoErr)
    IN
    IF Len(bunnyRecords) = 0 THEN Ret(<<>>, NoErr)
    ELSE Both(libdnsRecord(zone, Head(bunnyRecords)),
              getAllRecords(zone, Tail(bunnyRecords)))

\* ------------------------------------------------------------------ state

VARIABLES
    vzones,     \* the vendor's zones, a set of [ID, Domain, nameBase]
    vrecords,   \* the vendor's records: zone ID -> sequence of bunnyRecord
    created,    \* how many records the vendor has created (the last ID)
    zones,      \* Provider.zones: the cache, domain string -> bunnyZone
    zonesMu,    \* Provider.zonesMu: the goroutine holding it, 0 when free
    nops,       \* how many facade calls have begun
    pc,         \* per goroutine: where its facade call stands
    op,         \* per goroutine: the call [kind, domain, records]
    zone,       \* per goroutine: the zone getZone returned
    idx,        \* per goroutine: the index of the record being processed
    listing,    \* per goroutine: bunnyRecords, the last listing fetched
    result,     \* per goroutine: the records returned (or collected so far)
    err,        \* per goroutine: the error returned
    calls,      \* per goroutine: the HTTP calls of the call, in issue order
    hist,       \* per goroutine: what the call did for each record so far
    resolved,   \* history: domain -> the zone its first successful getZone gave
    origin,     \* history: record ID -> the call [domain, record] that wrote it
    prev        \* history: the call a repeated call repeats, and its error

vars ==
    <<vzones, vrecords, created, zones, zonesMu, nops, pc, op, zone, idx,
      listing, result, err, calls, hist, resolved, origin, prev>>

vendorVars == <<vzones, vrecords, created, origin>>

ZoneIDs == {z.ID : z \in UNION ZoneSets}

OpKinds == {"GetRecords", "AppendRecords", "SetRecords", "DeleteRecords"}

NoOp == [kind |-> "none", domain |-> <<>>, records |-> <<>>]

EmptyCache == [d \in {} |-> ZeroZone]

NoCall == [op |-> NoOp, err |-> NoErr]

\* f with key k set to v
Put(f, k, v) == [x \in DOMAIN f \cup {k} |-> IF x = k THEN v ELSE f[x]]

Call(kind, i, zid) == [kind |-> kind, rec |-> i, zone |-> zid]

\* one entry of hist: whether the record's listing was fetched, the zone's
\* records when the record's processing began (for SetRecords and
\* DeleteRecords: the listing) and when it ended, and what was returned for
\* the record
Entry(listed, before, after, val, e) ==
    [listed |-> listed, before |-> before, after |-> after, val |-> val,
     err |-> e]

Init ==
    /\ vzones \in ZoneSets
    /\ vrecords = [z \in ZoneIDs |-> <<>>]
    /\ created = 0
    /\ zones = EmptyCache
    /\ zonesMu = 0
    /\ nops = 0
    /\ pc = [p \in Procs |-> "idle"]
    /\ op = [p \in Procs |-> NoOp]
    /\ zone = [p \in Procs |-> ZeroZone]
    /\ idx = [p \in Procs |-> 0]
    /\ listing = [p \in Procs |-> <<>>]
    /\ result = [p \in Procs |-> <<>>]
    /\ err = [p \in Procs |-> NoErr]
    /\ calls = [p \in Procs |-> <<>>]
    /\ hist = [p \in Procs |-> <<>>]
    /\ resolved = EmptyCache
    /\ origin = <<>>
    /\ prev = NoCall

\* a facade call begins: GetRecords / AppendRecords / SetRecords /
\* DeleteRecords(ctx, domain, records)
Start(p, domains, lists) ==
    /\ pc[p] \in {"idle", "done"}
    /\ nops < MaxOps
    /\ \E kind \in OpKinds, domain \in domains, records \in lists :
          /\ kind = "GetRecords" => records = <<>>
          /\ kind \in {"AppendRecords", "SetRecords"}
                => created + Len(records) <= MaxCreated
          /\ op' = [op EXCEPT ![p] = [kind |-> kind, domain |-> domain,
                                      records |-> records]]
    /\ nops' = nops + 1
    /\ pc' = [pc EXCEPT ![p] = "getZone"]
    /\ zone' = [zone EXCEPT ![p] = ZeroZone]
    /\ idx' = [idx EXCEPT ![p] = 0]
    /\ listing' = [listing EXCEPT ![p] = <<>>]
    /\ result' = [result EXCEPT ![p] = <<>>]
    /\ err' = [err EXCEPT ![p] = NoErr]
    /\ calls' = [calls EXCEPT ![p] = <<>>]
    /\ hist' = [hist EXCEPT ![p] = <<>>]
    /\ UNCHANGED <<vendorVars, zones, zonesMu, resolved>>

\* a facade call with a domain without trailing dot and any record list
Begin(p) == Start(p, Domains, RecordLists) /\ UNCHANGED prev

\* the facade call of p returns (records, e)
Return(p, records, e) ==
    /\ pc' = [pc EXCEPT ![p] = "done"]
    /\ result' = [result EXCEPT ![p] = records]
    /\ err' = [err EXCEPT ![p] = e]

\* getZone has returned z without error: the facade goes on to its loop
Resolved(p, z) ==
    /\ zone' = [zone EXCEPT ![p] = z]
    /\ IF op[p].kind = "GetRecords"
       THEN /\ pc' = [pc EXCEPT ![p] = "getAllRecords"]
            /\ UNCHANGED <<idx, result, err>>
       ELSE IF Len(op[p].records) = 0
       THEN /\ Return(p, <<>>, NoErr)
            /\ UNCHANGED idx
       ELSE /\ pc' = [pc EXCEPT ![p] = "record"]
            /\ idx' = [idx EXCEPT ![p] = 1]
            /\ UNCHANGED <<result, err>>

\* getZone without its cache write
cacheNoPut(cache, domain, z) == cache

\* a cache of one entry: the zone stored replaces what the cache held
cachePutAlone(cache, domain, z) == [d \in {domain} |-> z]

\* getZone, "p.zones[domain] = zone": the cache with the zone stored under
\* the requested domain
cachePut(cache, domain, z) == Put(cache, domain, z)

\* getZone up to its request without its lock
GetZoneLockFree(p) ==
    /\ pc[p] = "getZone"
    /\ LET domain == unFQDN(op[p].domain) IN
       IF domain = <<>>
       THEN /\ Return(p, <<>>, ErrEmptyDomain)
            /\ UNCHANGED <<zone, idx, zonesMu, calls>>
       ELSE IF domain \in DOMAIN zones
       THEN /\ Resolved(p, zones[domain])
            /\ UNCHANGED <<zonesMu, calls>>
       ELSE /\ pc' = [pc EXCEPT ![p] = "search"]
            /\ zonesMu' = p
            /\ calls' = [calls EXCEPT ![p] = Append(@, Call("search", 0, 0))]
            /\ UNCHANGED <<zone, idx, result, err>>
    /\ UNCHANGED <<vendorVars, zones, nops, op, listing, hist, resolved, prev>>

\* getZone up to its request: the lock is taken; an empty domain fails, a
\* cached domain returns the cached zone, and both release the lock;
\* otherwise the search request is sent with the lock held
GetZoneLock(p) ==
    /\ pc[p] = "getZone"
    /\ zonesMu = 0
    /\ LET domain == unFQDN(op[p].domain) IN
       IF domain = <<>>
       THEN /\ Return(p, <<>>, ErrEmptyDomain)
            /\ UNCHANGED <<zone, idx, zonesMu, calls>>
       ELSE IF domain \in DOMAIN zones
       THEN /\ Resolved(p, zones[domain])
            /\ UNCHANGED <<zonesMu, calls>>
       ELSE /\ pc' = [pc EXCEPT ![p] = "search"]
            /\ zonesMu' = p
            /\ calls' = [calls EXCEPT ![p] = Append(@, Call("search", 0, 0))]
            /\ UNCHANGED <<zone, idx, result, err>>
    /\ UNCHANGED <<vendorVars, zones, nops, op, listing, hist, resolved, prev>>

\* getZone whose return on a failed request leaves the lock held
GetZoneResponseHolds(p) ==
    /\ pc[p] = "search"
    /\ zonesMu = p
    /\ LET domain == unFQDN(op[p].domain) IN
       \/ /\ Return(p, <<>>, ErrTransport)
          /\ UNCHANGED <<zones, zone, idx, resolved, zonesMu>>
       \/ \E found \in apiSearch(vzones, searchTerm(domain)) :
          \E z \in {getZone(domain, found)} :
             /\ zonesMu' = 0
             /\ IF z.err # NoErr
                THEN /\ Return(p, <<>>, z.err)
                     /\ UNCHANGED <<zones, zone, idx, resolved>>
                ELSE /\ zones' = cachePut(zones, domain, z.val)
                     /\ resolved' = IF domain \in DOMAIN resolved
                                    THEN resolved
                                    ELSE Put(resolved, domain, z.val)
                     /\ Resolved(p, z.val)
    /\ UNCHANGED <<vendorVars, nops, op, listing, calls, hist, prev>>

\* getZone from the search response on: the request fails, or some zone
\* list comes back and is matched against the guesses; the lock is released
GetZoneResponse(p) ==
    /\ pc[p] = "search"
    /\ zonesMu = p
    /\ zonesMu' = 0
    /\ LET domain == unFQDN(op[p].domain) IN
       \/ /\ Return(p, <<>>, ErrTransport)
          /\ UNCHANGED <<zones, zone, idx, resolved>>
       \/ \E found \in apiSearch(vzones, searchTerm(domain)) :
          \E z \in {getZone(domain, found)} :
             IF z.err # NoErr
             THEN /\ Return(p, <<>>, z.err)
                  /\ UNCHANGED <<zones, zone, idx, resolved>>
             ELSE /\ zones' = cachePut(zones, domain, z.val)
                  /\ resolved' = IF domain \in DOMAIN resolved THEN resolved
                                 ELSE Put(resolved, domain, z.val)
                  /\ Resolved(p, z.val)
    /\ UNCHANGED <<vendorVars, nops, op, listing, calls, hist, prev>>

\* SetRecords dropping its partial results on an error
setRecordsFailedNil(setRecords) == <<>>

\* what a facade call returns beside the error when a record fails:
\* AppendRecords "return nil, err", SetRecords "return setRecords, err",
\* DeleteRecords "return nil, err"
appendRecordsFailed(appendedRecords) == <<>>

setRecordsFailed(setRecords) == setRecords

deleteRecordsFailed(records) == <<>>

\* the loop without its return on an error
LoopNextNoAbort(p, e, failed, records, last) ==
    IF idx[p] = Len(op[p].records)
    THEN /\ Return(p, last, e)
         /\ UNCHANGED idx
    ELSE /\ pc' = [pc EXCEPT ![p] = "record"]
         /\ idx' = [idx EXCEPT ![p] = @ + 1]
         /\ result' = [result EXCEPT ![p] = records]
         /\ UNCHANGED err

\* the loop of a facade call after one record: it returns on an error
\* (failed, e), and on the last record (records, nil); otherwise it goes on
\* with the next record
LoopNext(p, e, failed, records, last) ==
    IF e # NoErr
    THEN /\ Return(p, failed, e)
         /\ UNCHANGED idx
    ELSE IF idx[p] = Len(op[p].records)
    THEN /\ Return(p, last, NoErr)
         /\ UNCHANGED idx
    ELSE /\ pc' = [pc EXCEPT ![p] = "record"]
         /\ idx' = [idx EXCEPT ![p] = @ + 1]
         /\ result' = [result EXCEPT ![p] = records]
         /\ UNCHANGED err

\* Applied with the request's outcome stored in every zone of the vendor
AppliedEveryZone(p, zid, record, before, out) ==
    /\ vrecords' = [z \in DOMAIN vrecords |-> out.recs]
    /\ created' = IF Len(out.recs) > Len(before) THEN created + 1 ELSE created
    /\ origin' =
          IF Len(out.recs) > Len(before)
          THEN Append(origin, [domain |-> op[p].domain, record |-> record])
          ELSE origin
    /\ calls' = [calls EXCEPT ![p] =
                    @ \o [k \in 1..Len(out.calls) |->
                             Call(out.calls[k], idx[p], zid)]]

\* the vendor's state after a mutating call of p gave out for record:
\* the zone's records, the ID counter, and who wrote which record
Applied(p, zid, record, before, out) ==
    /\ vrecords' = [vrecords EXCEPT ![zid] = out.recs]
    /\ created' = IF Len(out.recs) > Len(before) THEN created + 1 ELSE created
    /\ origin' =
          IF Len(out.recs) > Len(before)
          THEN Append(origin, [domain |-> op[p].domain, record |-> record])
          ELSE IF out.calls = <<"update">>
          THEN [i \in DOMAIN origin |->
                   IF \E k \in 1..Len(before) :
                         before[k].ID = i /\ out.recs[k] # before[k]
                   THEN [domain |-> op[p].domain, record |-> record]
                   ELSE origin[i]]
          ELSE origin
    /\ calls' = [calls EXCEPT ![p] =
                    @ \o [k \in 1..Len(out.calls) |->
                             Call(out.calls[k], idx[p], zid)]]

\* AppendRecords, one turn of its loop: createRecord
AppendStep(p) ==
    /\ pc[p] = "record"
    /\ op[p].kind = "AppendRecords"
    /\ \E answer \in Answers :
       \E zid \in {zone[p].ID}, record \in {op[p].records[idx[p]]} :
       \E out \in {createRecord(zone[p], record, vrecords[zid], created + 1,
                                answer)} :
          /\ Applied(p, zid, record, vrecords[zid], out)
          /\ hist' = [hist EXCEPT ![p] =
                         Append(@, Entry(FALSE, vrecords[zid], out.recs,
                                         out.val, out.err))]
          /\ LoopNext(p, out.err, appendRecordsFailed(result[p]),
                      Append(result[p], out.val), Append(result[p], out.val))
    /\ UNCHANGED <<vzones, zones, zonesMu, nops, op, zone, listing,
                   resolved, prev>>

\* SetRecords and DeleteRecords, one turn of the loop, first half:
\* getDNSRecords lists the zone
ListStep(p) ==
    /\ pc[p] = "record"
    /\ op[p].kind \in {"SetRecords", "DeleteRecords"}
    /\ LET zid == zone[p].ID IN
       /\ calls' = [calls EXCEPT ![p] = Append(@, Call("list", idx[p], zid))]
       /\ \/ /\ listing' = [listing EXCEPT ![p] = vrecords[zid]]
             /\ pc' = [pc EXCEPT ![p] = "matched"]
             /\ UNCHANGED <<result, err, hist>>
          \/ /\ Return(p, IF op[p].kind = "SetRecords"
                          THEN setRecordsFailed(result[p])
                          ELSE deleteRecordsFailed(op[p].records),
                       ErrTransport)
             /\ hist' = [hist EXCEPT ![p] =
                            Append(@, Entry(FALSE, vrecords[zid],
                                            vrecords[zid], NilRecord,
                                            ErrTransport))]
             /\ UNCHANGED listing
    /\ UNCHANGED <<vendorVars, zones, zonesMu, nops, op, zone, idx,
                   resolved, prev>>

\* SetRecords, one turn of its loop, second half: createOrUpdateRecord
\* matches the listing and creates or updates
SetStep(p) ==
    /\ pc[p] = "matched"
    /\ op[p].kind = "SetRecords"
    /\ \E answer \in Answers :
       \E zid \in {zone[p].ID}, record \in {op[p].records[idx[p]]} :
       \E out \in {createOrUpdateRecord(zone[p], record, listing[p],
                                        vrecords[zid], created + 1, answer)} :
          /\ Applied(p, zid, record, vrecords[zid], out)
          /\ hist' = [hist EXCEPT ![p] =
                         Append(@, Entry(TRUE, listing[p], out.recs, out.val,
                                         out.err))]
          /\ LoopNext(p, out.err, setRecordsFailed(result[p]),
                      Append(result[p], out.val), Append(result[p], out.val))
    /\ UNCHANGED <<vzones, zones, zonesMu, nops, op, zone, listing,
                   resolved, prev>>

\* DeleteRecords, one turn of its loop, second half: deleteRecord matches
\* the listing and deletes the first match
DeleteStep(p) ==
    /\ pc[p] = "matched"
    /\ op[p].kind = "DeleteRecords"
    /\ \E answer \in Answers :
       \E zid \in {zone[p].ID}, record \in {op[p].records[idx[p]]} :
       \E out \in {deleteRecord(zone[p], record, listing[p], vrecords[zid],
                                answer)} :
          /\ Applied(p, zid, record, vrecords[zid], out)
          /\ hist' = [hist EXCEPT ![p] =
                         Append(@, Entry(TRUE, listing[p], out.recs, out.val,
                                         out.err))]
          /\ LoopNext(p, out.err, deleteRecordsFailed(op[p].records), <<>>,
                      op[p].records)
    /\ UNCHANGED <<vzones, zones, zonesMu, nops, op, zone, listing,
                   resolved, prev>>

\* GetRecords after getZone: getAllRecords lists the zone and decodes it
GetStep(p) ==
    /\ pc[p] = "getAllRecords"
    /\ LET zid == zone[p].ID IN
       /\ calls' = [calls EXCEPT ![p] = Append(@, Call("list", 0, zid))]
       /\ \/ /\ listing' = [listing EXCEPT ![p] = vrecords[zid]]
             /\ \E records \in {getAllRecords(zone[p], vrecords[zid])} :
                   Return(p, records.val, records.err)
          \/ /\ Return(p, <<>>, ErrTransport)
             /\ UNCHANGED listing
    /\ UNCHANGED <<vendorVars, zones, zonesMu, nops, op, zone, idx, hist,
                   resolved, prev>>

\* GET /dnszone: the vendor's zones, in any order
apiZones(vendorZones) == Perms(vendorZones)

\* ListZones, its loop: a libdns.Zone of the Domain of each bunnyZone
listZones(bunnyZones) ==
    [i \in 1..Len(bunnyZones) |-> [Name |-> bunnyZones[i].Domain]]

\* a facade call begins: ListZones(ctx)
BeginListZones(p) ==
    /\ pc[p] \in {"idle", "done"}
    /\ nops < MaxOps
    /\ op' = [op EXCEPT ![p] = [kind |-> "ListZones", domain |-> <<>>,
                                records |-> <<>>]]
    /\ nops' = nops + 1
    /\ pc' = [pc EXCEPT ![p] = "getAllZones"]
    /\ zone' = [zone EXCEPT ![p] = ZeroZone]
    /\ idx' = [idx EXCEPT ![p] = 0]
    /\ listing' = [listing EXCEPT ![p] = <<>>]
    /\ result' = [result EXCEPT ![p] = <<>>]
    /\ err' = [err EXCEPT ![p] = NoErr]
    /\ calls' = [calls EXCEPT ![p] = <<>>]
    /\ hist' = [hist EXCEPT ![p] = <<>>]
    /\ UNCHANGED <<vendorVars, zones, zonesMu, resolved, prev>>

\* ListZones: getAllZones fetches the vendor's zones, and their names are
\* returned; a failed request returns (nil, err)
ListZonesStep(p) ==
    /\ pc[p] = "getAllZones"
    /\ calls' = [calls EXCEPT ![p] = Append(@, Call("zones", 0, 0))]
    /\ \/ \E bunnyZones \in apiZones(vzones) :
             Return(p, listZones(bunnyZones), NoErr)
       \/ Return(p, <<>>, ErrTransport)
    /\ UNCHANGED <<vendorVars, zones, zonesMu, nops, op, zone, idx, listing,
                   hist, resolved, prev>>

\* one caller: goroutine 1 makes the facade calls one after the other
Next ==
    \/ Begin(1)
    \/ GetZoneLock(1)
    \/ GetZoneResponse(1)
    \/ AppendStep(1)
    \/ ListStep(1)
    \/ SetStep(1)
    \/ DeleteStep(1)
    \/ GetStep(1)

Spec == Init /\ [][Next]_vars

\* ------------------------------------------------ the resolver's domains
\* The same caller and calls, with the domains that exercise unFQDN and
\* the failures of getZone.

BeginAny(p) == Start(p, ResolverDomains, ResolverLists) /\ UNCHANGED prev

ResolverNext ==
    \/ BeginAny(1)
    \/ GetZoneLock(1)
    \/ GetZoneResponse(1)
    \/ AppendStep(1)
    \/ ListStep(1)
    \/ SetStep(1)
    \/ DeleteStep(1)
    \/ GetStep(1)

SpecResolver == Init /\ [][ResolverNext]_vars

\* ----------------------------------------------------- concurrent callers
\* Every goroutine of Procs makes facade calls on the one Provider; their
\* steps (each up to one HTTP request) interleave in any order.

BeginConcurrent(p) ==
    Start(p, ConcurrentDomains, ConcurrentLists) /\ UNCHANGED prev

ConcurrentNext ==
    \E p \in Procs :
        \/ BeginConcurrent(p)
        \/ GetZoneLock(p)
        \/ GetZoneResponse(p)
        \/ AppendStep(p)
        \/ ListStep(p)
        \/ SetStep(p)
        \/ DeleteStep(p)
        \/ GetStep(p)

SpecConcurrent == Init /\ [][ConcurrentNext]_vars

\* ------------------------------------------------- a call and its repeat
\* One caller calls SetRecords(d, rs) on a zone that holds what earlier
\* AppendRecords calls for the apex left there, no two records of one
\* (name, type), and, when the vendor has answered every request of the
\* call, calls SetRecords(d, rs) again.

Preloads == {<<>>, <<RecT2>>, <<RecApex>>}

RECURSIVE Preloaded(_)
Preloaded(rs) ==
    IF rs = <<>> THEN <<>>
    ELSE createRecord(ZoneApex, rs[Len(rs)],
                      Preloaded(SubSeq(rs, 1, Len(rs) - 1)), Len(rs),
                      "answered").recs

\* the Provider as constructed, at a vendor whose apex zone holds what
\* AppendRecords for the apex, of one of the lists, left there
InitHolding(preloads) ==
    /\ vzones \in ZoneSets
    /\ \E rs \in preloads :
          /\ vrecords = [z \in ZoneIDs |->
                            IF z = ZoneApex.ID THEN Preloaded(rs) ELSE <<>>]
          /\ created = Len(rs)
          /\ origin = [i \in 1..Len(rs) |->
                          [domain |-> Apex, record |-> rs[i]]]
    /\ zones = EmptyCache
    /\ zonesMu = 0
    /\ nops = 0
    /\ pc = [p \in Procs |-> "idle"]
    /\ op = [p \in Procs |-> NoOp]
    /\ zone = [p \in Procs |-> ZeroZone]
    /\ idx = [p \in Procs |-> 0]
    /\ listing = [p \in Procs |-> <<>>]
    /\ result = [p \in Procs |-> <<>>]
    /\ err = [p \in Procs |-> NoErr]
    /\ calls = [p \in Procs |-> <<>>]
    /\ hist = [p \in Procs |-> <<>>]
    /\ resolved = EmptyCache
    /\ prev = NoCall

InitPreloaded == InitHolding(Preloads)

\* SetRecords(ctx, domain, records), the first call
SetOnce(p) ==
    /\ nops = 0
    /\ Start(p, Domains, RecordLists)
    /\ op'[p].kind = "SetRecords"
    /\ UNCHANGED prev

\* SetRecords(ctx, domain, records) again, with the arguments of the call
\* that has returned
SetAgain(p) ==
    /\ nops = 1
    /\ pc[p] = "done"
    /\ err[p] # ErrTransport
    /\ Start(p, {op[p].domain}, {op[p].records})
    /\ op'[p].kind = "SetRecords"
    /\ prev' = [op |-> op[p], err |-> err[p]]

TwiceNext ==
    \/ SetOnce(1)
    \/ SetAgain(1)
    \/ GetZoneLock(1)
    \/ GetZoneResponse(1)
    \/ ListStep(1)
    \/ SetStep(1)

SpecTwice == InitPreloaded /\ [][TwiceNext]_vars

\* -------------------------------------------------- listing a given zone
\* One caller calls GetRecords on an apex zone that holds records written
\* by whoever manages the zone at the vendor.

VendorListings ==
    {[k \in 1..Len(recs) |-> [recs[k] EXCEPT !.ID = k]] :
        recs \in SeqsUpTo(VendorSamples, MaxListed)}

InitListed ==
    /\ vzones \in ZoneSets
    /\ \E recs \in VendorListings :
          /\ vrecords = [z \in ZoneIDs |->
                            IF z = ZoneApex.ID THEN recs ELSE <<>>]
          /\ created = Len(recs)
          /\ origin = [i \in 1..Len(recs) |->
                          [domain |-> Apex, record |-> NilRecord]]
    /\ zones = EmptyCache
    /\ zonesMu = 0
    /\ nops = 0
    /\ pc = [p \in Procs |-> "idle"]
    /\ op = [p \in Procs |-> NoOp]
    /\ zone = [p \in Procs |-> ZeroZone]
    /\ idx = [p \in Procs |-> 0]
    /\ listing = [p \in Procs |-> <<>>]
    /\ result = [p \in Procs |-> <<>>]
    /\ err = [p \in Procs |-> NoErr]
    /\ calls = [p \in Procs |-> <<>>]
    /\ hist = [p \in Procs |-> <<>>]
    /\ resolved = EmptyCache
    /\ prev = NoCall

\* GetRecords(ctx, domain)
GetOnce(p) ==
    /\ nops = 0
    /\ Start(p, Domains, {<<>>})
    /\ op'[p].kind = "GetRecords"
    /\ UNCHANGED prev

ListingNext ==
    \/ GetOnce(1)
    \/ GetZoneLock(1)
    \/ GetZoneResponse(1)
    \/ GetStep(1)

SpecListing == InitListed /\ [][ListingNext]_vars

\* ------------------------------------------- the vendor's zones changing
\* One caller resolves domains, call after call, while zones are created
\* and deleted at the vendor behind the adapter's back. The calls carry no
\* records: they end when getZone has returned.

\* a zone appears at the vendor
VendorCreatesZone ==
    /\ \E z \in (UNION ZoneSets) \ vzones : vzones' = vzones \cup {z}
    /\ UNCHANGED <<vrecords, created, origin, zones, zonesMu, nops, pc, op,
                   zone, idx, listing, result, err, calls, hist, resolved,
                   prev>>

\* a zone disappears from the vendor
VendorDeletesZone ==
    /\ \E z \in vzones : vzones' = vzones \ {z}
    /\ UNCHANGED <<vrecords, created, origin, zones, zonesMu, nops, pc, op,
                   zone, idx, listing, result, err, calls, hist, resolved,
                   prev>>

\* a facade call without records
BeginResolve(p) ==
    /\ Start(p, Domains, {<<>>})
    /\ op'[p].kind # "GetRecords"
    /\ UNCHANGED prev

StaleNext ==
    \/ BeginResolve(1)
    \/ GetZoneLock(1)
    \/ GetZoneResponse(1)
    \/ VendorCreatesZone
    \/ VendorDeletesZone

SpecStale == Init /\ [][StaleNext]_vars

\* --------------------------------------------- a zone for the last label
\* One caller resolves domains of one to four labels at a vendor that has a
\* zone whose apex is the domains' last label. The calls carry no records.

ZoneTLD == [ID |-> 3, Domain |-> SuffixDomain, nameBase |-> <<>>]

GuessDomains ==
    {SuffixDomain, Apex, SubDomain, <<"x", DOT>> \o SubDomain, NoZoneDomain}

InitGuesses ==
    /\ vzones \in {{ZoneTLD}, {ZoneTLD, ZoneApex}, {ZoneTLD, ZoneSub}}
    /\ vrecords = [z \in ZoneIDs |-> <<>>]
    /\ created = 0
    /\ origin = <<>>
    /\ zones = EmptyCache
    /\ zonesMu = 0
    /\ nops = 0
    /\ pc = [p \in Procs |-> "idle"]
    /\ op = [p \in Procs |-> NoOp]
    /\ zone = [p \in Procs |-> ZeroZone]
    /\ idx = [p \in Procs |-> 0]
    /\ listing = [p \in Procs |-> <<>>]
    /\ result = [p \in Procs |-> <<>>]
    /\ err = [p \in Procs |-> NoErr]
    /\ calls = [p \in Procs |-> <<>>]
    /\ hist = [p \in Procs |-> <<>>]
    /\ resolved = EmptyCache
    /\ prev = NoCall

BeginGuess(p) ==
    /\ Start(p, GuessDomains, {<<>>})
    /\ op'[p].kind # "GetRecords"
    /\ UNCHANGED prev

GuessNext ==
    \/ BeginGuess(1)
    \/ GetZoneLock(1)
    \/ GetZoneResponse(1)

SpecGuesses == InitGuesses /\ [][GuessNext]_vars

\* ------------------------------------------ one record under two domains
\* One caller sets and deletes, through the apex and through the
\* subdomain, TXT records named n, "@", n.s and s.

NestedRecords ==
    {RecT1, RecApex, TXTof(<<"n", DOT, "s">>, TTL120, "w"),
     TXTof(<<"s">>, TTL120, "w")}

BeginNested(p) ==
    /\ Start(p, {Apex, SubDomain}, SeqsUpTo(NestedRecords, MaxRecords))
    /\ op'[p].kind \in {"SetRecords", "DeleteRecords"}
    /\ UNCHANGED prev

NestedNext ==
    \/ BeginNested(1)
    \/ GetZoneLock(1)
    \/ GetZoneResponse(1)
    \/ ListStep(1)
    \/ SetStep(1)
    \/ DeleteStep(1)

SpecNested == Init /\ [][NestedNext]_vars

\* ------------------------------------- writing to a zone given as it is
\* One caller calls SetRecords and DeleteRecords, with one TXT or MX
\* record, on an apex zone that holds records written by whoever manages
\* the zone at the vendor, some of which libdnsRecord refuses.

BeginUndecoded(p) ==
    /\ Start(p, {Apex, SubDomain}, {<<RecT1>>, <<RecMX>>})
    /\ op'[p].kind \in {"SetRecords", "DeleteRecords"}
    /\ UNCHANGED prev

UndecodedNext ==
    \/ BeginUndecoded(1)
    \/ GetZoneLock(1)
    \/ GetZoneResponse(1)
    \/ ListStep(1)
    \/ SetStep(1)
    \/ DeleteStep(1)

SpecUndecoded == InitListed /\ [][UndecodedNext]_vars

\* --------------------------------------- one write, then reading back
\* One caller calls AppendRecords or SetRecords once, with any list of up
\* to MaxRecords of Records, on a zone that holds nothing, a TXT record, an
\* address record, or an SRV record libdnsRecord refuses, and then calls
\* GetRecords.

Held == {<<>>, <<RecT1>>, <<RecAddr>>, <<RecBadSRV>>}

WriteOnce(p) ==
    /\ nops = 0
    /\ Start(p, Domains, SeqsUpTo(Records, MaxRecords))
    /\ op'[p].kind \in {"AppendRecords", "SetRecords"}
    /\ UNCHANGED prev

ReadAfter(p) ==
    /\ nops = 1
    /\ Start(p, Domains, {<<>>})
    /\ op'[p].kind = "GetRecords"
    /\ UNCHANGED prev

WritesNext ==
    \/ WriteOnce(1)
    \/ ReadAfter(1)
    \/ GetZoneLock(1)
    \/ GetZoneResponse(1)
    \/ AppendStep(1)
    \/ ListStep(1)
    \/ SetStep(1)
    \/ GetStep(1)

SpecWrites == InitHolding(Held) /\ [][WritesNext]_vars

\* ------------------------------------------------------ all five calls
\* The goroutines of Procs call GetRecords, AppendRecords, SetRecords,
\* DeleteRecords and ListZones on the one Provider, for the domains of the
\* concurrent callers, at a vendor with one zone or two.

FrameNext ==
    \E p \in Procs :
        \/ BeginConcurrent(p)
        \/ BeginListZones(p)
        \/ ListZonesStep(p)
        \/ GetZoneLock(p)
        \/ GetZoneResponse(p)
        \/ AppendStep(p)
        \/ ListStep(p)
        \/ SetStep(p)
        \/ DeleteStep(p)
        \/ GetStep(p)

SpecFrame == Init /\ [][FrameNext]_vars

\* ------------------------------------------------- waiting for the lock
\* The goroutines of Procs resolve hosted, unhosted and empty domains on
\* the one Provider; the calls carry no records and return after getZone.

LockDomains == {Apex, SubDomain, NoZoneDomain, <<>>}

BeginLock(p) ==
    /\ Start(p, LockDomains, {<<>>})
    /\ op'[p].kind # "GetRecords"
    /\ UNCHANGED prev

LockNext ==
    \E p \in Procs :
        \/ BeginLock(p)
        \/ GetZoneLock(p)
        \/ GetZoneResponse(p)

SpecLock == Init /\ [][LockNext]_vars

\* sync.Mutex hands the lock to a goroutine that keeps waiting for it, and
\* every HTTP request returns
SpecLockFair ==
    /\ SpecLock
    /\ \A p \in Procs : SF_vars(GetZoneLock(p)) /\ WF_vars(GetZoneResponse(p))

\* ------------------------------------------------------- the codec alone
\* A zone and a record are drawn; the record is encoded for the zone
\* (listing holds the vendor's record) and the encoding decoded (result
\* holds the libdns record).

CodecInit ==
    /\ vzones = {ZoneApex}
    /\ vrecords = [z \in ZoneIDs |-> <<>>]
    /\ created = 0
    /\ zones = EmptyCache
    /\ zonesMu = 0
    /\ nops = 0
    /\ \E z \in CodecZones, r \in CodecRecords :
          /\ zone = [p \in Procs |-> IF p = 1 THEN z ELSE ZeroZone]
          /\ op = [p \in Procs |->
                     IF p = 1
                     THEN [kind |-> "codec", domain |-> z.nameBase,
                           records |-> <<r>>]
                     ELSE NoOp]
    /\ pc = [p \in Procs |-> IF p = 1 THEN "bunnyRecord" ELSE "idle"]
    /\ idx = [p \in Procs |-> 0]
    /\ listing = [p \in Procs |-> <<>>]
    /\ result = [p \in Procs |-> <<>>]
    /\ err = [p \in Procs |-> NoErr]
    /\ calls = [p \in Procs |-> <<>>]
    /\ hist = [p \in Procs |-> <<>>]
    /\ resolved = EmptyCache
    /\ origin = <<>>
    /\ prev = NoCall

\* zone.bunnyRecord(record)
EncodeStep(p) ==
    /\ pc[p] = "bunnyRecord"
    /\ \E r \in {bunnyRecord(zone[p], op[p].records[1])} :
          IF r.err # NoErr
          THEN /\ pc' = [pc EXCEPT ![p] = "done"]
               /\ err' = [err EXCEPT ![p] = r.err]
               /\ UNCHANGED listing
          ELSE /\ pc' = [pc EXCEPT ![p] = "libdnsRecord"]
               /\ listing' = [listing EXCEPT ![p] = <<r.val>>]
               /\ UNCHANGED err
    /\ UNCHANGED <<vendorVars, zones, zonesMu, nops, op, zone, idx, result,
                   calls, hist, resolved, prev>>

\* zone.libdnsRecord(the encoding)
DecodeStep(p) ==
    /\ pc[p] = "libdnsRecord"
    /\ \E r \in {libdnsRecord(zone[p], listing[p][1])} :
          /\ pc' = [pc EXCEPT ![p] = "done"]
          /\ result' = [result EXCEPT ![p] = <<r.val>>]
          /\ err' = [err EXCEPT ![p] = r.err]
    /\ UNCHANGED <<vendorVars, zones, zonesMu, nops, op, zone, idx, listing,
                   calls, hist, resolved, prev>>

CodecNext == EncodeStep(1) \/ DecodeStep(1)

SpecCodec == CodecInit /\ [][CodecNext]_vars

\* ------------------------------------------------------ the decoder alone
\* zone.libdnsRecord(record) for a zone and a record of the vendor: listing
\* holds the vendor's record, result the libdns record.

DecoderInit ==
    /\ vzones = {ZoneApex}
    /\ vrecords = [z \in ZoneIDs |-> <<>>]
    /\ created = 0
    /\ zones = EmptyCache
    /\ zonesMu = 0
    /\ nops = 0
    /\ \E z \in CodecZones, r \in VendorRecords :
          /\ zone = [p \in Procs |-> IF p = 1 THEN z ELSE ZeroZone]
          /\ listing = [p \in Procs |-> IF p = 1 THEN <<r>> ELSE <<>>]
    /\ op = [p \in Procs |->
               IF p = 1 THEN [kind |-> "decoder", domain |-> <<>>,
                              records |-> <<>>]
               ELSE NoOp]
    /\ pc = [p \in Procs |-> IF p = 1 THEN "libdnsRecord" ELSE "idle"]
    /\ idx = [p \in Procs |-> 0]
    /\ result = [p \in Procs |-> <<>>]
    /\ err = [p \in Procs |-> NoErr]
    /\ calls = [p \in Procs |-> <<>>]
    /\ hist = [p \in Procs |-> <<>>]
    /\ resolved = EmptyCache
    /\ origin = <<>>
    /\ prev = NoCall

DecoderNext == DecodeStep(1)

SpecDecoder == DecoderInit /\ [][DecoderNext]_vars

\* ------------------------------------------------------- the type tables
\* toBunnyType then fromBunnyType, as bunnyRecord and libdnsRecord apply
\* them to a record of each type name, and fromBunnyType as libdnsRecord
\* applies it to a vendor record of each code.

\* goroutine 1 is at "at" of the codec with its zone, call and listing
AtCodec(z, call, bunnyRecords, at) ==
    /\ vzones = {ZoneApex}
    /\ vrecords = [x \in ZoneIDs |-> <<>>]
    /\ created = 0
    /\ zones = EmptyCache
    /\ zonesMu = 0
    /\ nops = 0
    /\ zone = [p \in Procs |-> IF p = 1 THEN z ELSE ZeroZone]
    /\ op = [p \in Procs |-> IF p = 1 THEN call ELSE NoOp]
    /\ listing = [p \in Procs |-> IF p = 1 THEN bunnyRecords ELSE <<>>]
    /\ pc = [p \in Procs |-> IF p = 1 THEN at ELSE "idle"]
    /\ idx = [p \in Procs |-> 0]
    /\ result = [p \in Procs |-> <<>>]
    /\ err = [p \in Procs |-> NoErr]
    /\ calls = [p \in Procs |-> <<>>]
    /\ hist = [p \in Procs |-> <<>>]
    /\ resolved = EmptyCache
    /\ origin = <<>>
    /\ prev = NoCall

TypesInit ==
    \E z \in CodecZones :
        \/ \E r \in TypedRecords :
              AtCodec(z, [kind |-> "codec", domain |-> z.nameBase,
                          records |-> <<r>>], <<>>, "bunnyRecord")
        \/ \E r \in TypedVendorRecords :
              AtCodec(z, [kind |-> "decoder", domain |-> <<>>,
                          records |-> <<>>], <<r>>, "libdnsRecord")

TypesNext == EncodeStep(1) \/ DecodeStep(1)

SpecTypes == TypesInit /\ [][TypesNext]_vars


\* ----------------------------------------------------------------- claims

\* the k-th record of p's call, encoded for p's zone
Enc(p, k) == bunnyRecord(zone[p], op[p].records[k])

\* the places of recs that hold a record with the name and type of r
SameKey(recs, r) ==
    {j \in 1..Len(recs) : recs[j].Name = r.Name /\ recs[j].Type = r.Type}

\* the entries of p's call whose listing came back and whose record encodes
Listed(p) ==
    {k \in 1..Len(hist[p]) : hist[p][k].listed /\ Enc(p, k).err = NoErr}

\* the HTTP calls of p's call for its k-th record that change the zone
Mutations(p, k) ==
    {c \in 1..Len(calls[p]) :
        /\ calls[p][c].rec = k
        /\ calls[p][c].kind \in {"create", "update", "delete"}}

SameContent(r, data) == [r EXCEPT !.ID = 0] = [data EXCEPT !.ID = 0]

IDs(recs) == {recs[j].ID : j \in 1..Len(recs)}

\* C1: createOrUpdateRecord, for a record of a vendor type whose listing
\* the vendor answers and whose mutating request the vendor applies (the
\* only error then left is that of a response that cannot be read): with
\* no listed record of the
\* record's encoded name and type, exactly one record is created (the
\* listing stays as it was and one record with the encoded fields and a new
\* ID follows it); with exactly one, that record takes the encoded fields
\* under its ID, every other record and the record count stay, and the
\* input record is returned as given.
C1_CreateOrUpdate ==
    \A p \in Procs : \A k \in Listed(p) :
        LET e == hist[p][k]
            enc == Enc(p, k).val
            m == SameKey(e.before, enc)
        IN
        op[p].kind = "SetRecords" =>
            /\ (Cardinality(m) = 0 /\ e.err # ErrTransport) =>
                  /\ Len(e.after) = Len(e.before) + 1
                  /\ SubSeq(e.after, 1, Len(e.before)) = e.before
                  /\ SameContent(e.after[Len(e.after)], enc)
                  /\ e.after[Len(e.after)].ID \notin IDs(e.before)
            /\ Cardinality(m) = 1 => e.val = op[p].records[k]
            /\ (Cardinality(m) = 1 /\ e.err # ErrTransport) =>
                  /\ e.err \in {NoErr, ErrBody}
                  /\ Len(e.after) = Len(e.before)
                  /\ \A j \in 1..Len(e.before) :
                        IF j \in m
                        THEN e.after[j] = [enc EXCEPT !.ID = e.before[j].ID]
                        ELSE e.after[j] = e.before[j]

\* a SetRecords call that has updated the one match among two listed
\* records and then created a record for which nothing matched
C1_Witness ==
    /\ op[1].kind = "SetRecords"
    /\ Len(hist[1]) = 2
    /\ Listed(1) = {1, 2}
    /\ Cardinality(SameKey(hist[1][1].before, Enc(1, 1).val)) = 1
    /\ Len(hist[1][1].before) = 2
    /\ hist[1][1].after # hist[1][1].before
    /\ hist[1][1].err = NoErr
    /\ Cardinality(SameKey(hist[1][2].before, Enc(1, 2).val)) = 0
    /\ Len(hist[1][2].after) = 3
    /\ hist[1][2].err = NoErr

\* C2: createOrUpdateRecord, when its listing holds two or more records of
\* the record's encoded name and type, fails with the ambiguous-match error,
\* issues no create, update or delete call, and leaves the zone's records
\* as listed.
C2_Ambiguous ==
    \A p \in Procs : \A k \in Listed(p) :
        (/\ op[p].kind = "SetRecords"
         /\ Cardinality(SameKey(hist[p][k].before, Enc(p, k).val)) >= 2) =>
            /\ hist[p][k].err = ErrAmbiguous
            /\ hist[p][k].after = hist[p][k].before
            /\ Mutations(p, k) = {}
            /\ pc[p] = "done"
            /\ err[p] = ErrAmbiguous
            /\ vrecords[zone[p].ID] = hist[p][k].before

\* a SetRecords call that found two matches for its second record
C2_Witness ==
    /\ op[1].kind = "SetRecords"
    /\ Len(hist[1]) = 2
    /\ hist[1][2].listed
    /\ Cardinality(SameKey(hist[1][2].before, Enc(1, 2).val)) = 2
    /\ hist[1][2].err = ErrAmbiguous

\* C3: once getZone(d) has succeeded on the Provider, a later getZone(d)
\* sends no search request and returns the zone the first one returned.
C3_CacheHit ==
    [][\A p \in Procs :
          (/\ pc[p] = "getZone"
           /\ pc'[p] # "getZone"
           /\ unFQDN(op[p].domain) \in DOMAIN resolved) =>
              /\ pc'[p] # "search"
              /\ calls'[p] = calls[p]
              /\ err'[p] = NoErr
              /\ zone'[p] = resolved[unFQDN(op[p].domain)]]_vars

\* a second call for a subdomain resolved before: past getZone with no HTTP
\* call made, holding the zone and name-base of the first resolution
C3_Witness ==
    /\ nops = 2
    /\ pc[1] \in {"record", "getAllRecords"}
    /\ calls[1] = <<>>
    /\ unFQDN(op[1].domain) \in DOMAIN resolved
    /\ zone[1] = resolved[unFQDN(op[1].domain)]
    /\ zone[1].nameBase # <<>>

\* a is, up to case, a suffix of d made of whole labels
IsLabelSuffix(a, d) ==
    /\ Len(a) <= Len(d)
    /\ EqualFold(SubSeq(d, Len(d) - Len(a) + 1, Len(d)), a)
    /\ Len(a) = Len(d) \/ d[Len(d) - Len(a)] = DOT

\* C4: getZone resolves a domain to the vendor zone of its most specific
\* suffix guess that has a zone, compared without regard to case, whatever
\* the order of the zones in the search response: no vendor zone whose apex
\* is a longer whole-label suffix of the domain exists.
C4_MostSpecific ==
    \A p \in Procs :
        zone[p].ID # 0 =>
            /\ \E z \in vzones : z.ID = zone[p].ID /\ z.Domain = zone[p].Domain
            /\ IsLabelSuffix(zone[p].Domain, unFQDN(op[p].domain))
            /\ \A z \in vzones :
                  IsLabelSuffix(z.Domain, unFQDN(op[p].domain))
                     => Len(z.Domain) <= Len(zone[p].Domain)

\* with zones for the apex and for the subdomain, a call for the subdomain
\* in upper case has searched and resolved to the subdomain's zone
C4_Witness ==
    /\ vzones = {ZoneApex, ZoneSub}
    /\ op[1].domain = SubDomainUpper
    /\ Len(calls[1]) > 0
    /\ calls[1][1].kind = "search"
    /\ zone[1].ID = ZoneSub.ID

SubDomains == {SubDomain, SubDomainUpper}

NameBaseS == <<"s">>

\* the name of a record written under the subdomain with generic name n, as
\* the apex zone holds it: n.s, and s alone when n is "@" or empty
Nested(n) ==
    IF n = <<"@">> \/ n = <<>> THEN NameBaseS ELSE n \o <<DOT>> \o NameBaseS

\* the name reads _service._proto.name, as libdnsRecord splits it: three
\* parts at its first two dots, the first two with an underscore in front
SRVNamed(n) ==
    LET Parts(parts) ==
            /\ Len(parts) = 3
            /\ HasPrefix(parts[1], <<"_">>)
            /\ HasPrefix(parts[2], <<"_">>)
    IN Parts(SplitN(n, 3))

\* a record of type SRV has a name that reads _service._proto.name: so has
\* a libdns.SRV whose service holds no dot, so has a plain RR given one
NamedForType(record) ==
    RR(record).Type = "SRV" => SRVNamed(RR(record).Name)

\* the names every GetRecords that returns without error gives the records
\* that were written through the subdomain (all of them, or those named
\* for their type): for the apex, their generic names with the subdomain's
\* label; for the subdomain, their generic names (for all of them, or for
\* those whose name is not empty)
ReadBack(all) ==
    \A p \in Procs :
        (pc[p] = "done" /\ op[p].kind = "GetRecords" /\ err[p] = NoErr) =>
           /\ Len(result[p]) = Len(listing[p])
           /\ \A j \in 1..Len(listing[p]) :
                 LET w == origin[listing[p][j].ID] IN
                 (w.domain \in SubDomains /\ (all \/ NamedForType(w.record))) =>
                    IF op[p].domain \in SubDomains
                    THEN (all \/ RR(w.record).Name # <<>>) =>
                            RR(result[p][j]).Name = RR(w.record).Name
                    ELSE RR(result[p][j]).Name = Nested(RR(w.record).Name)

\* every record the apex zone holds that was written through the subdomain
\* has its generic name followed by the subdomain's label
StoredNested ==
    \A j \in 1..Len(vrecords[ZoneApex.ID]) :
        LET r == vrecords[ZoneApex.ID][j] IN
        origin[r.ID].domain \in SubDomains
           => r.Name = Nested(RR(origin[r.ID].record).Name)

\* C5, as stated: when the apex zone is the vendor's only zone, a record
\* written through the subdomain with generic name n is stored with name
\* n.s, and GetRecords returns it with name n for the subdomain and with
\* name n.s for the apex.
C5_AsStated == vzones = {ZoneApex} => (StoredNested /\ ReadBack(TRUE))

\* C5: when the apex zone is the vendor's only zone, a record written
\* through the subdomain with generic name n is stored with name n.s (s
\* alone when n is "@" or empty); when a record of type SRV is named
\* _service._proto.name, every GetRecords for the apex that returns
\* without error returns the record with name n.s, and every GetRecords
\* for the subdomain that returns without error returns it with name n
\* unless n is empty.
C5_NestedNames == vzones = {ZoneApex} => (StoredNested /\ ReadBack(FALSE))

\* the conditions of C5 are needed: a record of type SRV that is not named
\* _service._proto.name comes back from the apex under another name than
\* n.s, and a record of the empty name comes back from the subdomain as "@"
C5_Needed ==
    \A p \in Procs :
        (/\ vzones = {ZoneApex}
         /\ pc[p] = "done" /\ op[p].kind = "GetRecords" /\ err[p] = NoErr) =>
            \A j \in 1..Len(listing[p]) :
                LET w == origin[listing[p][j].ID] IN
                w.domain \in SubDomains =>
                   /\ (op[p].domain = Apex /\ ~NamedForType(w.record)) =>
                         RR(result[p][j]).Name # Nested(RR(w.record).Name)
                   /\ (op[p].domain \in SubDomains
                          /\ RR(w.record).Name = <<>>) =>
                         RR(result[p][j]).Name = <<"@">>

\* GetRecords for the subdomain has returned, under its generic name n, a
\* record written through the subdomain and stored as n.s
C5_Witness ==
    /\ vzones = {ZoneApex}
    /\ pc[1] = "done"
    /\ op[1].kind = "GetRecords"
    /\ op[1].domain = SubDomain
    /\ err[1] = NoErr
    /\ \E j \in 1..Len(listing[1]) :
          /\ origin[listing[1][j].ID].domain = SubDomain
          /\ listing[1][j].Name = <<"n", DOT, "s">>
          /\ RR(result[1][j]).Name = NameN

\* C7: deleteRecord for a record of a vendor type, when the listing holds no
\* record of its encoded name and type, returns no error, sends no DELETE
\* and leaves the zone's records as listed.
C7_DeleteNoMatch ==
    \A p \in Procs : \A k \in Listed(p) :
        (/\ op[p].kind = "DeleteRecords"
         /\ SameKey(hist[p][k].before, Enc(p, k).val) = {}) =>
            /\ hist[p][k].err = NoErr
            /\ hist[p][k].after = hist[p][k].before
            /\ Mutations(p, k) = {}

\* DeleteRecords of the same record twice has returned without error: the
\* first turn deleted the record, the second found no match
C7_Witness ==
    /\ op[1].kind = "DeleteRecords"
    /\ pc[1] = "done"
    /\ err[1] = NoErr
    /\ Len(hist[1]) = 2
    /\ op[1].records[1] = op[1].records[2]
    /\ Len(hist[1][1].after) < Len(hist[1][1].before)
    /\ SameKey(hist[1][2].before, Enc(1, 2).val) = {}

\* the test suite's compareRecords: type, name, data and TTL of RR() agree
CompareRecords(lhs, rhs) ==
    /\ RR(lhs).Type = RR(rhs).Type
    /\ RR(lhs).Name = RR(rhs).Name
    /\ RR(lhs).Data = RR(rhs).Data
    /\ RR(lhs).TTL = RR(rhs).TTL

\* p's call has returned an error met at its k-th record
FailedAt(p, k) ==
    /\ pc[p] = "done"
    /\ err[p] # NoErr
    /\ k = Len(hist[p])
    /\ k >= 1

\* the records 1..k-1 of p's call are what the call returned: records of
\* their types and names, and where a turn returned a record, that record
ReturnsFirst(p, k) ==
    /\ Len(result[p]) = k - 1
    /\ \A j \in 1..(k - 1) :
          /\ RR(result[p][j]).Type = RR(op[p].records[j]).Type
          /\ RR(result[p][j]).Name = RR(op[p].records[j]).Name
          /\ hist[p][j].val # NilRecord => result[p][j] = hist[p][j].val

\* what p's call did for its records 1..k-1 was not undone: each turn
\* succeeded and began with the zone the turn before left, so did the
\* failing turn, and the zone now is what the failing turn left: the
\* records the (k-1)-th turn left, first, unless the vendor applied the
\* failing turn's own request and its response could not be read
NotRolledBack(p, k) ==
    /\ \A j \in 1..(k - 1) :
          /\ hist[p][j].err = NoErr
          /\ j > 1 => hist[p][j].before = hist[p][j - 1].after
    /\ k > 1 =>
          /\ hist[p][k].before = hist[p][k - 1].after
          /\ vrecords[zone[p].ID] = hist[p][k].after
          /\ err[p] # ErrBody =>
                /\ Len(vrecords[zone[p].ID]) >= Len(hist[p][k - 1].after)
                /\ SubSeq(vrecords[zone[p].ID], 1,
                          Len(hist[p][k - 1].after)) = hist[p][k - 1].after

\* each of the turns 1..k-1 of p's call left its encoded record in the zone
StillApplied(p, k) ==
    \A j \in 1..(k - 1) :
        \E i \in 1..Len(hist[p][j].after) :
            SameContent(hist[p][j].after[i], Enc(p, j).val)

\* C8: SetRecords that fails at its k-th record returns the error with the
\* records 1..k-1 in input order, and what it did for them stays in the zone.
C8_SetPartial ==
    \A p \in Procs : \A k \in 1..MaxRecords :
        (op[p].kind = "SetRecords" /\ FailedAt(p, k)) =>
            /\ ReturnsFirst(p, k)
            /\ NotRolledBack(p, k)
            /\ StillApplied(p, k)

\* SetRecords has failed at its second record after creating the first
C8_Witness ==
    /\ op[1].kind = "SetRecords"
    /\ FailedAt(1, 2)
    /\ Len(result[1]) = 1
    /\ Len(hist[1][1].after) = Len(hist[1][1].before) + 1
    /\ Len(vrecords[zone[1].ID]) = Len(hist[1][1].after)

\* C9: AppendRecords and DeleteRecords that fail at their k-th record
\* return the error with the records 1..k-1, and what they did for them
\* stays in the zone.
C9_AppendDeletePartial ==
    \A p \in Procs : \A k \in 1..MaxRecords :
        (op[p].kind \in {"AppendRecords", "DeleteRecords"} /\ FailedAt(p, k)) =>
            /\ ReturnsFirst(p, k)
            /\ NotRolledBack(p, k)

\* the kinds of the HTTP calls of p's call for its k-th record, in order
CallsFor(p, k) ==
    LET cs == SelectSeq(calls[p], LAMBDA c : c.rec = k) IN
    [c \in 1..Len(cs) |-> cs[c].kind]

\* the call sequences one record may get
TurnShapes(kind) ==
    CASE kind = "AppendRecords" -> {<<>>, <<"create">>}
      [] kind = "SetRecords" ->
            {<<>>, <<"list">>, <<"list", "create">>, <<"list", "update">>}
      [] kind = "DeleteRecords" -> {<<>>, <<"list">>, <<"list", "delete">>}
      [] OTHER -> {<<>>}

\* C10: one AppendRecords, SetRecords or DeleteRecords call sends at most
\* one zone search, before anything else; its record calls go to the
\* resolved zone in input order, every call for a record after the turn of
\* the record before has ended; and no call is sent for a record after one
\* that failed.
C10_InOrder ==
    \A p \in Procs :
        op[p].kind \in {"AppendRecords", "SetRecords", "DeleteRecords"} =>
            /\ \A c \in 1..Len(calls[p]) :
                  /\ calls[p][c].kind = "search" <=> calls[p][c].rec = 0
                  /\ calls[p][c].kind = "search" => c = 1
                  /\ calls[p][c].rec > 0 =>
                        /\ calls[p][c].zone = zone[p].ID
                        /\ calls[p][c].rec <= Len(op[p].records)
                        /\ Len(hist[p]) >= calls[p][c].rec - 1
                  /\ \A b \in 1..(c - 1) : calls[p][b].rec <= calls[p][c].rec
            /\ \A k \in 1..Len(op[p].records) :
                  CallsFor(p, k) \in TurnShapes(op[p].kind)
            /\ \A j \in 1..Len(hist[p]) :
                  hist[p][j].err # NoErr =>
                     \A c \in 1..Len(calls[p]) : calls[p][c].rec <= j

\* a SetRecords call of two records has searched the zone, listed and
\* created for the first record, then listed and updated for the second
C10_Witness ==
    /\ op[1].kind = "SetRecords"
    /\ pc[1] = "done"
    /\ [c \in 1..Len(calls[1]) |-> <<calls[1][c].kind, calls[1][c].rec>>]
          = << <<"search", 0>>, <<"list", 1>>, <<"create", 1>>,
               <<"list", 2>>, <<"update", 2>> >>

\* the codec has encoded and decoded the record r for a zone
RoundTripDone(r) ==
    /\ op[1].kind = "codec"
    /\ pc[1] = "done"
    /\ op[1].records = <<r>>

\* decoding the encoding has given r back
RoundTrip(r) == err[1] = NoErr /\ result[1] = <<r>>

\* a record of a type the vendor has a code for
Supported(r) == toBunnyType(RR(r).Type).err = NoErr

HasDot(s) == \E i \in 1..Len(s) : s[i] = DOT

\* the types libdnsRecord gives back as the plain RR it built
PassedTypes == {"PTR", "Redirect", "Flatten", "PullZone", "Script"}

\* a record the codec gives back: a TTL of whole seconds; a libdns struct,
\* or a plain RR of a type libdnsRecord passes on as it is; a name that is
\* not empty, unless the record is an SRV struct; an address that is valid;
\* a service and a transport without dots
Canonical(r) ==
    /\ r.TTL % Second = 0
    /\ r.kind = "RR" => r.Type \in PassedTypes
    /\ r.kind # "SRV" => r.Name # <<>>
    /\ r.kind = "Address" => r.IP # ZeroIP
    /\ r.kind = "SRV" => ~HasDot(r.Service) /\ ~HasDot(r.Transport)

\* C6, as stated: for every zone, with or without a name-base, and every
\* record r of a supported type, decoding the encoding of r gives r back.
C6_AsStated ==
    \A r \in CodecRecords : (RoundTripDone(r) /\ Supported(r)) => RoundTrip(r)

\* C6: for every zone, with or without a name-base, decoding the encoding
\* of r gives r back when r has a TTL of whole seconds and is a libdns
\* struct (with a valid address, a service and transport without dots, and,
\* unless it is an SRV, a name that is not empty) or a plain RR of type PTR,
\* Redirect, Flatten, PullZone or Script with a name that is not empty; a
\* zero TTL and the name "@" are among these.
C6_RoundTrip ==
    \A r \in CodecRecords : (RoundTripDone(r) /\ Canonical(r)) => RoundTrip(r)

\* no other record of a supported type comes back as it was
C6_OnlyCanonical ==
    \A r \in CodecRecords :
        (RoundTripDone(r) /\ Supported(r) /\ RoundTrip(r)) => Canonical(r)

\* the apex record with a zero TTL has come back from a zone with a
\* name-base, where it was stored under the name-base
C6_Witness ==
    /\ RoundTripDone(TXTof(<<"@">>, 0, "v"))
    /\ zone[1].nameBase = <<"s">>
    /\ listing[1][1].Name = <<"s">>
    /\ listing[1][1].TTL = 0
    /\ RoundTrip(TXTof(<<"@">>, 0, "v"))

\* p's call of the kind, with at least one record, has returned without
\* error
Returned(p, kind) ==
    /\ pc[p] = "done"
    /\ op[p].kind = kind
    /\ err[p] = NoErr
    /\ Len(op[p].records) >= 1

\* the zone's records when p's call listed them for its first record
ZoneBefore(p) == hist[p][1].before

\* what GetRecords for the domain of p's call returns next, when the vendor
\* answers: the zone's records as they are now, decoded for p's zone
FollowingGet(p) == getAllRecords(zone[p], vrecords[zone[p].ID])

\* no two records of recs share a name and type
NoDuplicates(recs) ==
    \A i, j \in 1..Len(recs) :
        (recs[i].Name = recs[j].Name /\ recs[i].Type = recs[j].Type) => i = j

\* every record of rs has its like (type, name, data, TTL) in list
ContainsAll(list, rs) ==
    \A i \in 1..Len(rs) : \E j \in 1..Len(list) : CompareRecords(list[j], rs[i])

\* no record of rs has its like in list
ContainsNone(list, rs) ==
    \A i \in 1..Len(rs) : \A j \in 1..Len(list) : ~CompareRecords(list[j], rs[i])

\* after DeleteRecords the result holds every record of rs and the
\* following GetRecords none of them, in the zones that pass the test
DeletedGone(p, tested) ==
    LET Gone(following) ==
            /\ ContainsAll(result[p], op[p].records)
            /\ following.err = NoErr
                  => ContainsNone(following.val, op[p].records)
    IN (Returned(p, "DeleteRecords") /\ tested) => Gone(FollowingGet(p))

UnderBase(z, r) ==
    \/ z.nameBase = <<>>
    \/ r.Name = z.nameBase
    \/ HasSuffix(r.Name, <<DOT>> \o z.nameBase)

\* recs holds no two records of one name and type, and only records under
\* the name-base of z
Plain(z, recs) ==
    /\ NoDuplicates(recs)
    /\ \A i \in 1..Len(recs) : UnderBase(z, recs[i])

DistinctKeys(p) ==
    \A i, j \in 1..Len(op[p].records) :
        (Enc(p, i).val.Name = Enc(p, j).val.Name
            /\ Enc(p, i).val.Type = Enc(p, j).val.Type) => i = j

\* a record the vendor's answer gives back with its type, name, data and
\* TTL: a TTL of whole seconds; a name that is not empty; for the type SRV
\* a name that reads _service._proto.name; and no plain RR of a type whose
\* data libdnsRecord formats anew (MX, CAA and SRV, from the vendor's
\* number fields, which bunnyRecord leaves zero for a plain RR) or types
\* anew (an A record holding an AAAA address, or the reverse)
ComesBack(record) ==
    LET Like(rr) ==
            /\ rr.TTL % Second = 0
            /\ rr.Name # <<>>
            /\ NamedForType(record)
            /\ record.kind = "RR" =>
                  /\ rr.Type \notin {"MX", "CAA", "SRV"}
                  /\ rr.Type = "A" => rr.Data \in IPv4s
                  /\ rr.Type = "AAAA" => rr.Data \in IPv6s
    IN Like(RR(record))

\* every record of p's call comes back as it was written
AllComeBack(p) ==
    \A i \in 1..Len(op[p].records) : ComesBack(op[p].records[i])

\* no record of p's call is an address record of the zero netip.Addr, whose
\* text the vendor stores and RR.Parse refuses
ValidAddresses(p) ==
    \A i \in 1..Len(op[p].records) :
        op[p].records[i].kind = "Address" => op[p].records[i].IP # ZeroIP

\* libdnsRecord decodes every record of recs for the zone z
Readable(z, recs) == getAllRecords(z, recs).err = NoErr

\* the result of p's call holds the like of every record of the call
ResultHolds(p) == ContainsAll(result[p], op[p].records)

\* the following GetRecords returns without error and holds the like of
\* every record of p's call
ZoneHolds(p) ==
    LET Hold(following) ==
            /\ following.err = NoErr
            /\ ContainsAll(following.val, op[p].records)
    IN Hold(FollowingGet(p))

\* the result of p's call and the following GetRecords hold the like of
\* every record of the call
ResultAndZoneHold(p) == ResultHolds(p) /\ ZoneHolds(p)

\* the number of records the zone has gained since p's call began
Growth(p) == Len(vrecords[zone[p].ID]) - Len(ZoneBefore(p))

Unmatched(p) ==
    Cardinality({k \in 1..Len(op[p].records) :
                    SameKey(ZoneBefore(p), Enc(p, k).val) = {}})

OneEach(p) ==
    /\ Growth(p) = Len(op[p].records)
    /\ SubSeq(vrecords[zone[p].ID], 1, Len(ZoneBefore(p))) = ZoneBefore(p)
    /\ \A k \in 1..Len(op[p].records) :
          LET r == vrecords[zone[p].ID][Len(ZoneBefore(p)) + k] IN
          /\ SameContent(r, Enc(p, k).val)
          /\ r.ID \notin IDs(ZoneBefore(p))

C14_TrailingDot ==
    [][\A p \in Procs : \A d \in Domains :
          op'[p].domain = d \o <<DOT>> =>
             /\ zone'[p].ID # 0 =>
                   /\ d \in DOMAIN zones'
                   /\ zone'[p] = zones'[d]
                   /\ (d \o <<DOT>>) \notin DOMAIN zones'
             /\ (/\ pc[p] = "getZone"
                 /\ pc'[p] # "getZone"
                 /\ d \in DOMAIN resolved) =>
                   /\ pc'[p] # "search"
                   /\ calls'[p] = calls[p]
                   /\ zone'[p] = resolved[d]]_vars

\* the second call, for the subdomain with a trailing dot, is past getZone
\* with no HTTP call made, holding the zone and name-base that the first
\* call, for the subdomain without the dot, had cached
C14_Witness ==
    /\ nops = 2
    /\ op[1].domain = SubDomain \o <<DOT>>
    /\ op[1].kind \in {"AppendRecords", "SetRecords", "DeleteRecords"}
    /\ pc[1] = "record"
    /\ calls[1] = <<>>
    /\ DOMAIN zones = {SubDomain}
    /\ zone[1] = zones[SubDomain]
    /\ zone[1].nameBase = <<"s">>

\* C15: GetRecords for a subdomain that resolves to the apex zone with a
\* name-base returns the records stored under the subdomain and no others:
\* as many records as were written through the subdomain, and none decoded
\* from a vendor record whose name is neither the name-base nor ends in a
\* dot and the name-base.
C15_SubdomainOnly ==
    \A p \in Procs :
        (/\ pc[p] = "done"
         /\ op[p].kind = "GetRecords"
         /\ err[p] = NoErr
         /\ zone[p].nameBase # <<>>) =>
            /\ Len(result[p]) =
                  Cardinality({j \in 1..Len(listing[p]) :
                      origin[listing[p][j].ID].domain \in SubDomains})
            /\ \A j \in 1..Len(listing[p]) : UnderBase(zone[p], listing[p][j])

\* the calls that are inside getZone's critical section with a request in
\* flight: between "p.zonesMu.Lock()" and the deferred Unlock
InCritical(ps) == {p \in Procs : ps[p] = "search"}

\* C16: under every interleaving of the calls of concurrent callers, at
\* most one call is inside getZone's critical section, and it is the one
\* holding the lock; an entry of the cache, once written, is never written
\* again; and once a domain has been resolved, no call issues a zone search
\* for it.
C16_CriticalSection ==
    [][/\ Cardinality(InCritical(pc')) <= 1
       /\ \A p \in Procs : (pc'[p] = "search") <=> (zonesMu' = p)
       /\ \A d \in DOMAIN zones : d \in DOMAIN zones' /\ zones'[d] = zones[d]
       /\ \A p \in Procs :
             (pc[p] # "search" /\ pc'[p] = "search") =>
                 unFQDN(op[p].domain) \notin DOMAIN resolved]_vars

\* two callers have resolved the same uncached subdomain, both calls still
\* running: the first searched, the second made no HTTP call in getZone and
\* holds the zone the first one cached
C16_Witness ==
    /\ nops = 2
    /\ op[1].domain = SubDomain
    /\ op[2].domain = SubDomain
    /\ pc[1] = "record"
    /\ pc[2] = "record"
    /\ Len(calls[1]) = 1
    /\ calls[1][1].kind = "search"
    /\ calls[2] = <<>>
    /\ DOMAIN zones = {SubDomain}
    /\ zone[1] = zones[SubDomain]
    /\ zone[2] = zone[1]

\* every call that is running is of one of kinds
Running(kinds) ==
    \A p \in Procs : pc[p] \notin {"idle", "done"} => op[p].kind \in kinds

\* C17: a step of a SetRecords or DeleteRecords call, calls made one after
\* the other, that starts with every vendor zone holding at most one record
\* per (name, type) ends with every vendor zone holding at most one record
\* per (name, type).
C17_OnePerKey ==
    [][(/\ Running({"SetRecords", "DeleteRecords"})
        /\ \A z \in ZoneIDs : NoDuplicates(vrecords[z])) =>
            \A z \in ZoneIDs : NoDuplicates(vrecords'[z])]_vars

\* SetRecords has been given two records of one (name, type) on an empty
\* zone and succeeded: the first was created, the second has overwritten
\* it, and the zone holds the one record
C17_Witness ==
    /\ pc[1] = "done"
    /\ op[1].kind = "SetRecords"
    /\ op[1].records = <<RecT1, RecT2>>
    /\ err[1] = NoErr
    /\ ZoneBefore(1) = <<>>
    /\ Len(vrecords[zone[1].ID]) = 1
    /\ vrecords[zone[1].ID][1].Value = RecT2.Text
    /\ hist[1][2].before = hist[1][1].after

\* the steps of a repeated SetRecords call leave every vendor zone as it
\* is, and the call returns without error unless a request of its own
\* fails or its response cannot be read
Repeats ==
    /\ vrecords' = vrecords
    /\ \A p \in Procs :
          pc'[p] = "done" => err'[p] \in {NoErr, ErrTransport, ErrBody}

\* C18 as stated: on a zone without duplicate (name, type), for rs with
\* pairwise distinct (name, type), a second SetRecords(d, rs) right after
\* the first, the vendor having answered every request of the first, leaves
\* the zone's records as the first call left them and succeeds.
C18_AsStated ==
    [][(nops = 2 /\ DistinctKeys(1)) => Repeats]_vars

\* C18: on a zone without duplicate (name, type), for rs with pairwise
\* distinct (name, type), a second SetRecords(d, rs) right after a first
\* one that returned without error leaves the zone's records (IDs, names,
\* types, values, TTLs and count) as the first call left them and succeeds.
C18_Idempotent ==
    [][(nops = 2 /\ prev.err = NoErr /\ DistinctKeys(1)) => Repeats]_vars

\* SetRecords(a.c, [TXT n "v", MX n]) has succeeded twice in a row on a
\* zone that held TXT n "w": the second call updated both records and the
\* zone is what it was when the second call began
C18_Witness ==
    /\ nops = 2
    /\ pc[1] = "done"
    /\ err[1] = NoErr
    /\ prev.err = NoErr
    /\ prev.op = op[1]
    /\ op[1].records = <<RecT1, RecMX>>
    /\ Len(hist[1]) = 2
    /\ Len(ZoneBefore(1)) = 2
    /\ ZoneBefore(1)[1].Value = RecT1.Text
    /\ vrecords[zone[1].ID] = ZoneBefore(1)

\* the domains that are empty once a trailing dot is stripped
EmptyDomains == {<<>>, <<DOT>>}

\* C19: a facade call of any kind whose domain is "" or "." goes from its
\* start straight to its return with the empty-domain error, without an
\* HTTP call, and leaves the zone cache, the lock, the vendor's zones and
\* their records as they were.
C19_EmptyDomain ==
    [][\A p \in Procs :
          (/\ pc[p] = "getZone"
           /\ op[p].domain \in EmptyDomains
           /\ pc'[p] # pc[p]) =>
              /\ pc'[p] = "done"
              /\ err'[p] = ErrEmptyDomain
              /\ result'[p] = <<>>
              /\ calls'[p] = <<>>
              /\ zones' = zones
              /\ zonesMu' = zonesMu
              /\ vzones' = vzones
              /\ vrecords' = vrecords]_vars

\* a SetRecords call for "." has returned the empty-domain error with no
\* HTTP call made, after an earlier call had filled the cache and written a
\* record
C19_Witness ==
    /\ nops = 2
    /\ pc[1] = "done"
    /\ op[1].kind = "SetRecords"
    /\ op[1].domain = <<DOT>>
    /\ op[1].records = <<RecT1>>
    /\ err[1] = ErrEmptyDomain
    /\ calls[1] = <<>>
    /\ DOMAIN zones # {}
    /\ \E z \in ZoneIDs : vrecords[z] # <<>>

\* the domains of the calls that no zone of the vendor hosts
Unhosted == {NoZoneDomain, SuffixDomain}

\* C20: a getZone whose search comes back for a domain no zone hosts ends
\* the call with the zone-not-found error (the transport error when the
\* request fails); a getZone that fails after its search leaves the cache
\* as it was and makes no further HTTP call; and a getZone for a non-empty
\* domain that no getZone has resolved yet always issues a zone search,
\* whatever calls have failed for the domain before.
C20_NotFound ==
    [][\A p \in Procs :
          LET domain == unFQDN(op[p].domain) IN
          /\ (/\ pc[p] = "search"
              /\ pc'[p] # "search"
              /\ domain \in Unhosted) =>
                 /\ pc'[p] = "done"
                 /\ err'[p] \in {ErrZoneNotFound, ErrTransport}
          /\ (/\ pc[p] = "search"
              /\ pc'[p] # "search"
              /\ err'[p] # NoErr) =>
                 /\ pc'[p] = "done"
                 /\ err'[p] \in {ErrZoneNotFound, ErrTransport}
                 /\ result'[p] = <<>>
                 /\ zones' = zones
                 /\ calls'[p] = calls[p]
                 /\ vrecords' = vrecords
          /\ (/\ pc[p] = "getZone"
              /\ pc'[p] # "getZone"
              /\ domain # <<>>
              /\ domain \notin DOMAIN resolved) =>
                 /\ pc'[p] = "search"
                 /\ calls'[p] = <<Call("search", 0, 0)>>]_vars

\* the second call, for the one-label domain c that every zone's domain
\* contains and none equals, has searched and failed with zone not found,
\* no call before it having cached anything; the cache is still empty
C20_Witness ==
    /\ nops = 2
    /\ pc[1] = "done"
    /\ op[1].domain = SuffixDomain
    /\ err[1] = ErrZoneNotFound
    /\ calls[1] = <<Call("search", 0, 0)>>
    /\ zones = EmptyCache
    /\ resolved = EmptyCache

\* the decoder has decoded a vendor record of type SRV
DecodedSRV ==
    /\ op[1].kind = "decoder"
    /\ pc[1] = "done"
    /\ listing[1][1].Type = bunnyTypeSRV

\* the places of the dots of s
Dots(s) == {k \in 1..Len(s) : s[k] = DOT}

\* a label without its leading underscore
Bare(label) ==
    IF Len(label) >= 1 /\ label[1] = US THEN SubSeq(label, 2, Len(label))
    ELSE label

\* name is first.second.rest with first and second labels, rest not empty
\* when the name has a second dot
ThreeParts(name, first, second, rest) ==
    \E i, j \in Dots(name) :
        /\ i < j
        /\ Dots(name) \cap (1..j) = {i, j}
        /\ first = SubSeq(name, 1, i - 1)
        /\ second = SubSeq(name, i + 1, j - 1)
        /\ rest = SubSeq(name, j + 1, Len(name))

\* name is first.second, two labels
TwoParts(name, first, second) ==
    \E i \in Dots(name) :
        /\ Dots(name) = {i}
        /\ first = SubSeq(name, 1, i - 1)
        /\ second = SubSeq(name, i + 1, Len(name))

\* C21: decoding a vendor record of type SRV, with n its name after the
\* name-base is stripped ("@" when nothing is left): when n has no dot the
\* decoding fails with the not-enough-fields error; when n has one dot it
\* gives the service (the first label without its leading underscore), the
\* transport (the second label without its leading underscore) and the
\* name "@"; when n has two dots or more it gives service and transport
\* likewise and, as name, all that follows the second dot.
C21_DecodeSRV ==
    DecodedSRV =>
        LET n == libdnsName(zone[1], listing[1][1].Name)
            srv == result[1][1]
        IN  /\ (Cardinality(Dots(n)) = 0) <=> (err[1] = ErrSRVName)
            /\ err[1] \in {NoErr, ErrSRVName}
            /\ Cardinality(Dots(n)) = 1 =>
                  \E first, second \in {SubSeq(n, a, b) : a, b \in 1..Len(n)} :
                     /\ TwoParts(n, first, second)
                     /\ srv.kind = "SRV"
                     /\ srv.Service = Bare(first)
                     /\ srv.Transport = Bare(second)
                     /\ srv.Name = <<"@">>
            /\ Cardinality(Dots(n)) >= 2 =>
                  \E first, second \in {SubSeq(n, a, b) : a, b \in 1..Len(n)} :
                     /\ ThreeParts(n, first, second, srv.Name)
                     /\ srv.kind = "SRV"
                     /\ srv.Service = Bare(first)
                     /\ srv.Transport = Bare(second)

\* the vendor's record _x._t.n.s, read for the subdomain s, has been
\* decoded to service x, transport t and name n
C21_Witness ==
    /\ DecodedSRV
    /\ zone[1].nameBase = <<"s">>
    /\ listing[1][1].Name = <<US, "x", DOT, US, "t", DOT, "n", DOT, "s">>
    /\ err[1] = NoErr
    /\ result[1][1].kind = "SRV"
    /\ result[1][1].Service = <<"x">>
    /\ result[1][1].Transport = <<"t">>
    /\ result[1][1].Name = <<"n">>

\* the 13 pairs of the vendor's table
TypePairs ==
    {<<"A", 0>>, <<"AAAA", 1>>, <<"CNAME", 2>>, <<"TXT", 3>>, <<"MX", 4>>,
     <<"Redirect", 5>>, <<"Flatten", 6>>, <<"PullZone", 7>>, <<"SRV", 8>>,
     <<"CAA", 9>>, <<"PTR", 10>>, <<"Script", 11>>, <<"NS", 12>>}

ListedName(t) == \E pair \in TypePairs : pair[1] = t

ListedCode(c) == \E pair \in TypePairs : pair[2] = c

\* the type name of the record the encoder was given
GivenType == op[1].records[1].Type

\* the type code of the vendor record the decoder was given
GivenCode == listing[1][1].Type

\* C22: a record of a type name of the table is encoded with the code the
\* table pairs with the name, and decoding the encoding gives a record of
\* that type name again; a record of any other type name is not encoded,
\* the encoder returning the unknown-type error. A vendor record of a code
\* of the table decodes to a record of the type name the table pairs with
\* the code, and toBunnyType of that name is the code again; a vendor
\* record of any other code decodes to no record and the unknown-type-ID
\* error.
C22_TypeTables ==
    /\ (op[1].kind = "codec" /\ pc[1] # "bunnyRecord") =>
          IF ListedName(GivenType)
          THEN /\ Len(listing[1]) = 1
               /\ <<GivenType, listing[1][1].Type>> \in TypePairs
               /\ pc[1] = "done" =>
                     /\ err[1] = NoErr
                     /\ RR(result[1][1]).Type = GivenType
          ELSE /\ pc[1] = "done"
               /\ err[1] = ErrUnknownType
               /\ listing[1] = <<>>
               /\ result[1] = <<>>
    /\ (op[1].kind = "decoder" /\ pc[1] = "done") =>
          IF ListedCode(GivenCode)
          THEN /\ err[1] = NoErr
               /\ <<RR(result[1][1]).Type, GivenCode>> \in TypePairs
               /\ toBunnyType(RR(result[1][1]).Type) = Ret(GivenCode, NoErr)
          ELSE /\ err[1] = ErrUnknownTypeID
               /\ result[1] = <<NilRecord>>

\* a plain RR of type Script has been encoded with the code 11 and decoded
\* to a record of type Script
C22_Witness ==
    /\ op[1].kind = "codec"
    /\ pc[1] = "done"
    /\ GivenType = "Script"
    /\ listing[1][1].Type = 11
    /\ err[1] = NoErr
    /\ result[1][1].Type = "Script"

\* the places of the records of recs that libdnsRecord refuses for zone z
Refused(z, recs) ==
    {j \in 1..Len(recs) : libdnsRecord(z, recs[j]).err # NoErr}

\* C23: a GetRecords call whose listing request the vendor answered
\* returns, when libdnsRecord refuses a record of the listing, the error of
\* the first such record and no record at all, and otherwise no error and
\* the decoding of every record of the listing, in listing order.
C23_AllOrNothing ==
    \A p \in Procs :
        (/\ pc[p] = "done"
         /\ op[p].kind = "GetRecords"
         /\ Len(calls[p]) >= 1
         /\ calls[p][Len(calls[p])].kind = "list"
         /\ err[p] # ErrTransport) =>
            /\ listing[p] = vrecords[zone[p].ID]
            /\ IF Refused(zone[p], listing[p]) # {}
               THEN /\ result[p] = <<>>
                    /\ \E j \in Refused(zone[p], listing[p]) :
                          /\ \A k \in Refused(zone[p], listing[p]) : j <= k
                          /\ err[p] = libdnsRecord(zone[p], listing[p][j]).err
               ELSE /\ err[p] = NoErr
                    /\ Len(result[p]) = Len(listing[p])
                    /\ \A j \in 1..Len(listing[p]) :
                          result[p][j] =
                             libdnsRecord(zone[p], listing[p][j]).val

\* GetRecords on a zone that holds a TXT record, a record of a type code
\* outside the table and an SRV record has returned the unknown-type-ID
\* error and no record
C23_Witness ==
    /\ pc[1] = "done"
    /\ op[1].kind = "GetRecords"
    /\ Len(listing[1]) = 3
    /\ listing[1][1].Type = bunnyTypeTXT
    /\ listing[1][2].Type = bunnyTypeNS + 1
    /\ listing[1][3].Type = bunnyTypeSRV
    /\ err[1] = ErrUnknownTypeID
    /\ result[1] = <<>>

\* C24: whatever happens, calls of the adapter or zones created and
\* deleted at the vendor, an entry of the cache stays in the cache with the
\* zone it was stored with, and a getZone for a domain resolved before
\* returns the zone ID and name-base of the domain's first resolution,
\* without an HTTP call.
C24_WriteOnce ==
    [][/\ \A d \in DOMAIN zones : d \in DOMAIN zones' /\ zones'[d] = zones[d]
       /\ \A p \in Procs :
             (/\ pc[p] = "getZone"
              /\ pc'[p] # "getZone"
              /\ unFQDN(op[p].domain) \in DOMAIN resolved) =>
                 /\ zone'[p] = resolved[unFQDN(op[p].domain)]
                 /\ zones[unFQDN(op[p].domain)] = zone'[p]
                 /\ err'[p] = NoErr
                 /\ calls'[p] = <<>>]_vars

\* the second call for the subdomain has got, without an HTTP call, the
\* apex zone with the name-base s that the first call cached, although by
\* now the vendor has a zone for the subdomain and none for the apex
C24_Witness ==
    /\ nops = 2
    /\ pc[1] = "done"
    /\ op[1].domain = SubDomain
    /\ err[1] = NoErr
    /\ calls[1] = <<>>
    /\ zone[1] = [ZoneApex EXCEPT !.nameBase = <<"s">>]
    /\ zones[SubDomain] = zone[1]
    /\ vzones = {ZoneSub}

\* the entry of cache under d: its zone's apex is, up to case, a suffix
\* of d made of whole labels; its name-base is empty exactly when the apex
\* is as long as d, and otherwise is in lower case and gives d in lower
\* case when joined with a dot to the apex in lower case
EntryFits(cache, d) ==
    /\ IsLabelSuffix(cache[d].Domain, d)
    /\ (cache[d].nameBase = <<>>) <=> (Len(cache[d].Domain) = Len(d))
    /\ cache[d].nameBase # <<>> =>
          /\ cache[d].nameBase = ToLower(cache[d].nameBase)
          /\ ToLower(d) =
                cache[d].nameBase \o <<DOT>> \o ToLower(cache[d].Domain)

\* C25: after every step, every entry of the cache fits its key as above,
\* and an entry the step has added is stored under the domain of a call
\* whose search was in flight, as getZone was given it.
C25_EntryShape ==
    [][/\ \A d \in DOMAIN zones' : EntryFits(zones', d)
       /\ (DOMAIN zones') \ (DOMAIN zones) \subseteq
             {unFQDN(op[p].domain) : p \in InCritical(pc)}]_vars

\* the call for S.a.c has been resolved on a vendor with the apex zone
\* alone: the cache holds, under S.a.c and not under a.c, the zone a.c with
\* the name-base s
C25_Witness ==
    /\ pc[1] = "done"
    /\ op[1].domain = SubDomainUpper
    /\ err[1] = NoErr
    /\ DOMAIN zones = {SubDomainUpper}
    /\ zones[SubDomainUpper].Domain = Apex
    /\ zones[SubDomainUpper].nameBase = <<"s">>
    /\ zone[1] = zones[SubDomainUpper]

\* g is the suffix of d that holds the last m labels of d
LastLabels(g, d, m) ==
    /\ HasSuffix(d, g)
    /\ Cardinality(Dots(g)) = m - 1
    /\ Len(g) = Len(d) \/ d[Len(d) - Len(g)] = DOT

\* the guesses for the domain d are right: for d of n >= 2 labels, the
\* n - 1 suffixes of d of n, n - 1, ..., 2 labels in this order; for d of
\* one label, d alone
GuessesFit(d, guesses) ==
    LET n == Cardinality(Dots(d)) + 1 IN
    IF n >= 2
    THEN /\ Len(guesses) = n - 1
         /\ \A k \in 1..(n - 1) : LastLabels(guesses[k], d, n - k + 1)
    ELSE guesses = <<d>>

\* C26: for the domain of every call, getBaseDomainNameGuesses gives the
\* guesses described above, and a call for a domain of two labels or more
\* is never resolved to a zone whose apex has one label, also when the
\* vendor has a zone for the domain's last label.
C26_Guesses ==
    \A p \in Procs :
        op[p].kind # "none" =>
            /\ GuessesFit(op[p].domain,
                          getBaseDomainNameGuesses(op[p].domain))
            /\ (zone[p].ID # 0 /\ Dots(op[p].domain) # {}) =>
                  Dots(zone[p].Domain) # {}

\* the call for x.s.a.c, whose guesses are x.s.a.c, s.a.c and a.c, has
\* been resolved to the zone s.a.c at a vendor that has zones for s.a.c and
\* for c; the call for c before it had been resolved to the zone of c
C26_Witness ==
    /\ nops = 2
    /\ pc[1] = "done"
    /\ op[1].domain = <<"x", DOT>> \o SubDomain
    /\ getBaseDomainNameGuesses(op[1].domain) =
          <<op[1].domain, SubDomain, Apex>>
    /\ vzones = {ZoneTLD, ZoneSub}
    /\ SuffixDomain \in DOMAIN zones
    /\ zones[SuffixDomain] = ZoneTLD
    /\ err[1] = NoErr
    /\ zone[1] = [ZoneSub EXCEPT !.nameBase = <<"x">>]

\* recs without its j-th record
Without(recs, j) == SubSeq(recs, 1, j - 1) \o SubSeq(recs, j + 1, Len(recs))

\* C27: deleteRecord for a record of a vendor type, when the listing holds
\* two or more records of its encoded name and type and the vendor
\* applies the DELETE, returns no error (unless the response cannot be
\* read), sends one DELETE and leaves the zone's records as listed but for
\* the first of the matching records.
C27_DeleteFirst ==
    \A p \in Procs : \A k \in Listed(p) :
        (/\ op[p].kind = "DeleteRecords"
         /\ Cardinality(SameKey(hist[p][k].before, Enc(p, k).val)) >= 2
         /\ hist[p][k].err # ErrTransport) =>
            /\ hist[p][k].err \in {NoErr, ErrBody}
            /\ Cardinality(Mutations(p, k)) = 1
            /\ \A c \in Mutations(p, k) : calls[p][c].kind = "delete"
            /\ \E j \in SameKey(hist[p][k].before, Enc(p, k).val) :
                  /\ \A i \in SameKey(hist[p][k].before, Enc(p, k).val) :
                        j <= i
                  /\ hist[p][k].after = Without(hist[p][k].before, j)

\* DeleteRecords of the TXT record "w" has succeeded on a zone that held
\* the TXT records "v" and "w" of the name, in this order: the first, "v",
\* is gone and "w" is left
C27_Witness ==
    /\ op[1].kind = "DeleteRecords"
    /\ pc[1] = "done"
    /\ err[1] = NoErr
    /\ op[1].records = <<RecT2>>
    /\ Len(ZoneBefore(1)) = 2
    /\ SameKey(ZoneBefore(1), Enc(1, 1).val) = {1, 2}
    /\ ZoneBefore(1)[1].Value = RecT1.Text
    /\ ZoneBefore(1)[2].Value = RecT2.Text
    /\ vrecords[zone[1].ID] = <<ZoneBefore(1)[2]>>

\* p is about to match, for the apex, a record whose name and type are
\* those that the zone's j-th record, written through the subdomain, has
\* when addressed through the apex
AddressesNested(p, j) ==
    /\ pc[p] = "matched"
    /\ op[p].domain = Apex
    /\ zone[p].nameBase = <<>>
    /\ j \in 1..Len(vrecords[zone[p].ID])
    /\ LET w == origin[vrecords[zone[p].ID][j].ID]
           r == RR(op[p].records[idx[p]])
       IN  /\ w.domain = SubDomain
           /\ r.Name = Nested(RR(w.record).Name)
           /\ r.Type = RR(w.record).Type

\* C28: a SetRecords or DeleteRecords turn for the apex and a record named
\* n.s (s for "@") acts, when the vendor applies its request, on the
\* record of that
\* type that was written through the subdomain s under the name n:
\* DeleteRecords removes that record and no other, SetRecords gives that
\* record, under its ID, the fields of the new record and creates none.
C28_SameRecord ==
    [][\A p \in Procs : pc[p] = "matched" =>
        \A j \in 1..Len(vrecords[zone[p].ID]) :
          (/\ AddressesNested(p, j)
           /\ pc'[p] # "matched"
           /\ hist'[p][Len(hist'[p])].err # ErrTransport) =>
              LET before == vrecords[zone[p].ID]
                  after == vrecords'[zone[p].ID]
              IN  /\ hist'[p][Len(hist'[p])].err \in {NoErr, ErrBody}
                  /\ op[p].kind = "DeleteRecords" =>
                        after = Without(before, j)
                  /\ op[p].kind = "SetRecords" =>
                        /\ Len(after) = Len(before)
                        /\ \A i \in 1..Len(before) :
                              i # j => after[i] = before[i]
                        /\ after[j].ID = before[j].ID
                        /\ SameContent(after[j],
                              bunnyRecord(zone[p], op[p].records[idx[p]]).val)
                        /\ created' = created]_vars

\* SetRecords(a.c, [TXT n.s "w"]) has succeeded after SetRecords(s.a.c,
\* [TXT n "v"]): the zone holds one record, named n.s, with the ID the
\* first call was given and the value of the second
C28_Witness ==
    /\ nops = 2
    /\ pc[1] = "done"
    /\ err[1] = NoErr
    /\ op[1] = [kind |-> "SetRecords", domain |-> Apex,
                records |-> <<TXTof(<<"n", DOT, "s">>, TTL120, "w")>>]
    /\ Len(ZoneBefore(1)) = 1
    /\ ZoneBefore(1)[1].Name = <<"n", DOT, "s">>
    /\ ZoneBefore(1)[1].Value = RecT1.Text
    /\ Len(vrecords[zone[1].ID]) = 1
    /\ vrecords[zone[1].ID][1].ID = ZoneBefore(1)[1].ID
    /\ vrecords[zone[1].ID][1].Value = "w"
    /\ created = 1

\* every goroutine has called SetRecords(d, [TXT n "v"]) for one hosted
\* domain d on the empty zone, and the calls have returned
BothSet ==
    /\ \A p \in Procs :
          /\ pc[p] = "done"
          /\ op[p].kind = "SetRecords"
          /\ op[p].records = <<RecT1>>
          /\ op[p].domain \in {Apex, SubDomain}
    /\ \A p, q \in Procs : op[p].domain = op[q].domain

\* the calls that listed the zone and found no record in it
ListedNone == {p \in Procs : Len(hist[p]) = 1 /\ hist[p][1].listed
                                /\ hist[p][1].before = <<>>}

\* C29 as stated: two concurrent SetRecords calls for one (name, type) on a
\* zone without a record of it leave at most one record of that (name,
\* type) in the zone.
C29_AsStated ==
    BothSet => \A z \in ZoneIDs : NoDuplicates(vrecords[z])

\* C29: two concurrent SetRecords calls for one (name, type) on a zone
\* without a record of it, the vendor answering every request, leave one
\* record of that (name, type) when one call lists the zone after the other
\* has created, and two records when both calls list the zone before
\* either creates: both then observe zero matches and both create (as
\* many records as calls that listed the empty zone). With requests
\* failing they leave at most one record per call.
C29_ListThenCreate ==
    BothSet =>
        /\ \A z \in ZoneIDs :
              /\ Len(vrecords[z]) <= NProcs
              /\ \A j \in 1..Len(vrecords[z]) : \E p \in Procs :
                    /\ zone[p].ID = z
                    /\ SameContent(vrecords[z][j],
                                   bunnyRecord(zone[p], RecT1).val)
        /\ (\A p \in Procs : err[p] = NoErr) =>
              /\ \A p \in Procs : zone[p] = zone[1]
              /\ Len(vrecords[zone[1].ID]) = Cardinality(ListedNone)
              /\ ListedNone # {}

\* both calls listed the empty zone, both created, both returned without
\* error: the zone holds two TXT records named n
C29_Witness ==
    /\ BothSet
    /\ \A p \in Procs : err[p] = NoErr
    /\ ListedNone = Procs
    /\ Len(vrecords[zone[1].ID]) = NProcs
    /\ ~NoDuplicates(vrecords[zone[1].ID])
    /\ created = NProcs

\* the positions of a call inside getZone: before "p.zonesMu.Lock()", and
\* with the lock held and the search request in flight
InGetZone == {"getZone", "search"}

\* C30: the lock is free in every state where no getZone call is between
\* its Lock and its return; every step by which a call leaves getZone (the
\* empty-domain error, a cache hit, a failed request, zone not found, a
\* zone found) ends with the lock free; and, the mutex serving waiting
\* goroutines and every HTTP request returning, every call that has
\* entered getZone leaves it.
C30_LockReleased ==
    /\ [](InCritical(pc) = {} => zonesMu = 0)
    /\ [][\A p \in Procs :
             (pc[p] \in InGetZone /\ pc'[p] \notin InGetZone) =>
                 zonesMu' = 0]_vars
    /\ \A p \in Procs : (pc[p] \in InGetZone) ~> (pc[p] \notin InGetZone)

\* one call's search has failed in transport, and the other call, for the
\* same hosted domain, has searched in its turn and resolved it: the lock
\* is free and the cache holds the domain
C30_Witness ==
    /\ nops = 2
    /\ pc[1] = "done"
    /\ err[1] = ErrTransport
    /\ Len(calls[1]) = 1
    /\ calls[1][1].kind = "search"
    /\ op[2].domain = op[1].domain
    /\ pc[2] = "done"
    /\ err[2] = NoErr
    /\ Len(calls[2]) = 1
    /\ calls[2][1].kind = "search"
    /\ zonesMu = 0
    /\ op[1].domain \in DOMAIN zones

\* the goroutines whose call takes a step
Stepping == {p \in Procs : pc'[p] # pc[p] \/ idx'[p] # idx[p]
                              \/ calls'[p] # calls[p]}

\* the requests p's call sends in the step
Sent(p) ==
    IF Len(calls'[p]) >= Len(calls[p])
    THEN {calls'[p][k] : k \in Len(calls[p]) + 1..Len(calls'[p])}
    ELSE {}

\* C31: a step that sends a create, update or delete request is a step of
\* an AppendRecords, SetRecords or DeleteRecords call, and the request
\* goes to the zone ID that getZone gave the call for its domain, the one
\* the cache holds for the domain; the records of every other vendor zone
\* are as before. No step of a GetRecords or ListZones call changes a
\* vendor record, and no step of a ListZones call changes the cache or the
\* lock or waits for the lock: it returns the names of the vendor's zones
\* whatever the cache holds and whoever holds the lock.
C31_Frame ==
    [][/\ vrecords' # vrecords => Stepping # {}
       /\ \A p \in Stepping :
          /\ \A c \in Sent(p) :
                c.kind \in {"create", "update", "delete"} =>
                   /\ op[p].kind \in {"AppendRecords", "SetRecords",
                                      "DeleteRecords"}
                   /\ c.zone = zone[p].ID
                   /\ unFQDN(op[p].domain) \in DOMAIN zones
                   /\ zone[p] = zones[unFQDN(op[p].domain)]
          /\ \A z \in ZoneIDs :
                vrecords'[z] # vrecords[z] =>
                   /\ pc[p] \in {"record", "matched"}
                   /\ z = zone[p].ID
          /\ op'[p].kind \in {"GetRecords", "ListZones"} =>
                vrecords' = vrecords /\ created' = created
          /\ op'[p].kind = "ListZones" =>
                /\ zones' = zones
                /\ zonesMu' = zonesMu
                /\ resolved' = resolved
                /\ \A c \in Sent(p) : c.kind = "zones"
                /\ (pc'[p] = "done" /\ err'[p] = NoErr) =>
                      {result'[p][i].Name : i \in 1..Len(result'[p])} =
                         {z.Domain : z \in vzones}
                /\ pc[p] = "getAllZones" => ENABLED ListZonesStep(p)]_vars

\* at a vendor with two zones, AppendRecords for the subdomain has created
\* a record in the subdomain's zone and the apex zone is still empty; the
\* other goroutine's ListZones has returned both zones, and the cache
\* holds the subdomain alone
C31_Witness ==
    /\ vzones = {ZoneApex, ZoneSub}
    /\ op[1].kind = "AppendRecords"
    /\ op[1].domain = SubDomain
    /\ pc[1] = "done"
    /\ err[1] = NoErr
    /\ Len(vrecords[ZoneSub.ID]) = 1
    /\ vrecords[ZoneApex.ID] = <<>>
    /\ op[2].kind = "ListZones"
    /\ pc[2] = "done"
    /\ err[2] = NoErr
    /\ Len(result[2]) = 2
    /\ DOMAIN zones = {SubDomain}

\* p is about to match its record, which encodes, against a listing of
\* which libdnsRecord refuses a record, none of the refused records having
\* the record's encoded name and type
MatchesUndecoded(p) ==
    /\ pc[p] = "matched"
    /\ Refused(zone[p], listing[p]) # {}
    /\ Enc(p, idx[p]).err = NoErr
    /\ Refused(zone[p], listing[p])
          \cap SameKey(listing[p], Enc(p, idx[p]).val) = {}

\* C32: on a zone of which GetRecords would fail on a refused record, the
\* turn of a SetRecords or DeleteRecords call for a record of another name
\* or type, the vendor applying its request, returns no error but that
\* of a response that cannot be read (SetRecords: and the error of a
\* listing with more than one record of the name and type) and
\* applies its mutation: SetRecords creates the record when the listing
\* has none of its name and type and rewrites the one it has, under its
\* ID; DeleteRecords removes the first record of the name and type and
\* leaves a zone without one as it is. The refused records stay as they
\* are.
C32_RawListing ==
    [][\A p \in Procs :
          (/\ MatchesUndecoded(p)
           /\ pc'[p] # "matched"
           /\ hist'[p][Len(hist'[p])].err # ErrTransport) =>
              LET before == vrecords[zone[p].ID]
                  after == vrecords'[zone[p].ID]
                  enc == Enc(p, idx[p]).val
                  m == SameKey(listing[p], enc)
                  e == hist'[p][Len(hist'[p])].err
              IN  /\ getAllRecords(zone[p], before).err # NoErr
                  /\ listing[p] = before
                  /\ \A j \in Refused(zone[p], before) :
                        \E k \in 1..Len(after) : after[k] = before[j]
                  /\ op[p].kind = "SetRecords" =>
                        /\ IF Cardinality(m) > 1 THEN e = ErrAmbiguous
                           ELSE e \in {NoErr, ErrBody}
                        /\ m = {} =>
                              /\ Len(after) = Len(before) + 1
                              /\ SubSeq(after, 1, Len(before)) = before
                              /\ SameContent(after[Len(after)], enc)
                        /\ \A j \in m : Cardinality(m) = 1 =>
                              /\ Len(after) = Len(before)
                              /\ after[j].ID = before[j].ID
                              /\ SameContent(after[j], enc)
                        /\ Cardinality(m) > 1 => after = before
                  /\ op[p].kind = "DeleteRecords" =>
                        /\ e \in {NoErr, ErrBody}
                        /\ m = {} => (after = before /\ e = NoErr)
                        /\ \A j \in m : (\A k \in m : j <= k) =>
                              after = Without(before, j)]_vars

\* the zone held a record of the unknown type code 13 and the TXT record
\* n with value "v": SetRecords(a.c, [MX n]) has created the MX record
\* behind them, and DeleteRecords(a.c, [TXT n]) has then removed the TXT
\* record, both without error; a GetRecords of the zone still fails
C32_Witness ==
    /\ nops = 2
    /\ pc[1] = "done"
    /\ err[1] = NoErr
    /\ op[1] = [kind |-> "DeleteRecords", domain |-> Apex,
                records |-> <<RecT1>>]
    /\ created = 3
    /\ Len(vrecords[ZoneApex.ID]) = 2
    /\ vrecords[ZoneApex.ID][1].Type = bunnyTypeNS + 1
    /\ vrecords[ZoneApex.ID][2].Type = bunnyTypeMX
    /\ vrecords[ZoneApex.ID][2].ID = 3
    /\ getAllRecords(ZoneApex, vrecords[ZoneApex.ID]).err # NoErr

=============================================================================
